---- MODULE Spec2Model ----
(***************************************************************************)
(* Join / registration / login flow of the event front end.                *)
(*                                                                         *)
(* The model follows one mounted public page at a time: either the         *)
(* EventRegistrationPage (register + login flow, unnamed/part_000) or the  *)
(* EventPage with its JoinButton (unnamed/part_002, components/JoinButton).*)
(* Every handler is cut at its awaits: the part before the await is the    *)
(* click/submit action, the part after it is the action that runs when the *)
(* pending call settles.  localStorage, the axios clients of utils/api and *)
(* the browser effects (window.open, alert, navigation) are part of the    *)
(* state; "out" holds the effects of the step that was taken last and      *)
(* "last" names that step, its input and the state it started from.        *)
(***************************************************************************)
EXTENDS Integers, Sequences, FiniteSets, TLC

VARIABLES
  page,        \* which public page is mounted
  form,        \* FormState (the fields the flow reads)
  joining,     \* useState(false): register request busy flag
  authMode,    \* "register" | "login"
  login,       \* {userOrEmail, loading, err, ok}
  joinNotice,  \* inline notice under the header
  toast,       \* ToastState | null
  storage,     \* localStorage: access_token, refresh_token
  inflight,    \* calls awaiting their response, with the closure they captured
  jbLoading,   \* JoinButton's useState(false)
  out,         \* effects of the last step
  last,        \* the last step: operation, input, state before it
  now,         \* Date.now(), in ms
  mounted,     \* the page component is mounted
  event,       \* useState<EventDTO | null>(null)
  canJoinWindow, \* the useMemo value
  timeLeft,    \* useState(""): EventRegistrationPage's countdown text
  secLeft,     \* useState(0): EventPage's countdown seconds
  intervals,   \* active setInterval timers, each with the event its tick captured
  effectEv,    \* the event captured by the countdown effect's cleanup
  vstep,       \* the last view step: operation and the start time a tick used
  timeouts,    \* pending setTimeout timers of the toasts
  render,      \* number of renders so far; each render makes a new pushToast
  fnT,         \* fnT[r]: the _t property of render r's pushToast (0: undefined)
  pushes,      \* number of toasts pushed so far
  toastNo,     \* which push the displayed toast came from (0: none)
  rows,        \* Registrations: useState<RegistrationVM[]>([])
  filters,     \* Registrations: the filters object
  currentPage, \* Registrations: useState(1)
  loading,     \* Registrations: useState(true)
  pending,     \* Registrations: list requests awaiting their response
  deleting,    \* Registrations: delete requests awaiting their response
  delFetch,    \* Registrations: list requests awaited by a handleDelete
  code,        \* useParams().code of the event pages
  fetches,     \* event requests awaiting their response, each with its effect's `on`
  fetchNo,     \* number of event requests issued so far
  error,       \* useState<string | null>(null) of the event pages
  evLoading,   \* useState(true): the event pages' loading flag
  latest,      \* the answer to the request for the current code, once it is in
  csv,         \* the text of the last downloaded CSV file
  analytics,   \* AdminEventAnalytics: data, useState<AnalyticsResponse | null>(null)
  statusFilter, \* AdminEventAnalytics: useState<"" | LogStatus>("")
  meeting,     \* MeetingManagement: the modal, the form, submitting, loading
  save,        \* MeetingManagement: the running handleSubmit, where it waits
  sent         \* the requests the last handleSubmit has issued so far

toastVars == << timeouts, render, fnT, pushes, toastNo >>
deleteVars == << deleting, delFetch >>
tableVars == << rows, filters, currentPage, loading, pending, deleteVars >>

fetchVars == << code, fetches, fetchNo, error, evLoading, latest >>
meetingVars == << meeting, save, sent >>
adminVars == << csv, analytics, statusFilter, meetingVars >>

extVars ==
  << now, mounted, event, canJoinWindow, timeLeft, secLeft, intervals,
     effectEv, vstep, toastVars, tableVars, fetchVars, adminVars >>

vars == << page, form, joining, authMode, login, joinNotice, toast, storage,
           inflight, jbLoading, out, last, extVars >>

-----------------------------------------------------------------------------
(* Values *)

\* JS undefined / null / a missing property / a missing localStorage key
NoVal == "<absent>"

\* JS truthiness of an optional string
Truthy(s) == s # NoVal /\ s # ""

Emails == {"", "a@x.org"}
UserNames == {"", "a@x.org", "bob"}

Links == {NoVal, "", "https://x"}
Messages == {NoVal, "", "too early"}
Reasons == {NoVal, "account_exists"}
Statuses == {200, 400, 409, 500}

NoTokens == [access |-> NoVal, refresh |-> NoVal]
SrvTokens == [access |-> "A_reg", refresh |-> "R_reg"]
\* the tokens object a register response can carry: none, both, or access alone
TokenPairs ==
  {NoTokens, SrvTokens, [access |-> "A_reg", refresh |-> NoVal]}

\* response body of register / join / open: {ok, link?, message?, reason?, tokens?}
Bodies ==
  [ok: BOOLEAN, link: Links, reason: Reasons, message: Messages,
   tokens: TokenPairs]

EmptyBody ==
  [ok |-> FALSE, link |-> NoVal, reason |-> NoVal, message |-> NoVal,
   tokens |-> NoTokens]

\* what the awaited call leaves in regRes / joinResponse: a response
\* (success value or error.response) or undefined (no response at all)
NoResponse == [present |-> FALSE, status |-> 0, data |-> EmptyBody]
Responses ==
  {NoResponse} \cup [present: {TRUE}, status: Statuses, data: Bodies]

\* outcome of POST /api/auth/token/: resolved with {access, refresh}, or
\* rejected with response.data.detail / non_field_errors[0] / neither
TokenResponses ==
  {[ok |-> TRUE, access |-> "A_new", refresh |-> "R_new",
    detail |-> NoVal, nfe |-> NoVal]}
  \cup [ok: {FALSE}, access: {NoVal}, refresh: {NoVal},
        detail: {NoVal, "No active account"},
        nfe: {NoVal, "Unable to log in"}]
NoTokenResponse ==
  [ok |-> FALSE, access |-> NoVal, refresh |-> NoVal,
   detail |-> NoVal, nfe |-> NoVal]

\* persisted tokens a visitor can arrive with
ExpiredTokens == {"A_stale"}
InitStorage ==
  { [access_token |-> NoVal, refresh_token |-> NoVal],
    [access_token |-> "A_old", refresh_token |-> "R_old"],
    [access_token |-> "A_stale", refresh_token |-> "R_old"] }

CannedWindowMsg ==
  "You can join from 15 minutes before the start time until the event ends."
ConsentMsg == "Please accept both legal requirements to proceed."
AccountExistsMsg == "Account exists. Please login to continue."
JoiningMsg == "Joining now..."   \* the source ends it with U+2026
RegErrorMsg == "Error during registration."
InvalidCredMsg == "Invalid credentials"
UnableMsg == "Unable to join right now."
JoinFailedMsg == "Join failed."

NoToast == [type |-> NoVal, message |-> NoVal]
NoEffects ==
  [requests |-> << >>, toasts |-> << >>, opened |-> << >>,
   alerts |-> << >>, navigated |-> << >>]

initialForm ==
  [email |-> "", accept_policy |-> FALSE, accept_recording |-> FALSE]
initialLogin == [userOrEmail |-> "", loading |-> FALSE, err |-> "", ok |-> FALSE]

-----------------------------------------------------------------------------
(* utils/api: the shared axios client and the bare axios default client *)

isJwtExpired(token) == token \in ExpiredTokens

\* mutant: the interceptor attaches whatever token is stored
InterceptHeader_noExpiry(skipAuth, st) ==
  IF skipAuth \/ st.access_token = NoVal THEN NoVal
  ELSE "Bearer " \o st.access_token

\* request interceptor of `api`: the Authorization header the request leaves with
InterceptHeader(skipAuth, st) ==
  IF skipAuth THEN NoVal
  ELSE IF st.access_token # NoVal /\ ~isJwtExpired(st.access_token)
       THEN "Bearer " \o st.access_token
       ELSE NoVal

\* request interceptor of `api`: its side effect on localStorage
InterceptStorage(skipAuth, st) ==
  IF ~skipAuth /\ st.access_token # NoVal /\ isJwtExpired(st.access_token)
  THEN [st EXCEPT !.access_token = NoVal]
  ELSE st

\* a request sent through api.post(url, ..., {skipAuth})
ApiRequest(url, skipAuth, st) ==
  [client |-> "api", method |-> "POST", url |-> url, skipAuth |-> skipAuth,
   authorization |-> InterceptHeader(skipAuth, st)]

\* a request sent through the global axios.post(url, ...): no interceptor runs
AxiosRequest(url) ==
  [client |-> "axios", method |-> "POST", url |-> url, skipAuth |-> FALSE,
   authorization |-> NoVal]

RegisterUrl == "/api/events/{code}/register/"
JoinUrl == "/api/events/{code}/join/"
TokenUrl == "/api/auth/token/"
OpenUrl == "/api/events/{code}/open/"

-----------------------------------------------------------------------------
(* EventRegistrationPage helpers *)

\* mutant: one consent is enough
canLegallyProceed_either == form.accept_policy \/ form.accept_recording

canLegallyProceed == form.accept_policy /\ form.accept_recording

pushToast(type, message) == [type |-> type, message |-> message]

\* regRes?.data || {}   and   regRes?.status ?? 0
DataOf(res) == IF res.present THEN res.data ELSE EmptyBody
StatusOf(res) == IF res.present THEN res.status ELSE 0

\* mutant: the 409 test placed before the ok-with-link test
RegisterOutcome_statusFirst(status, data) ==
  IF status = 409 \/ data.reason = "account_exists" THEN "AccountExists"
  ELSE IF data.ok /\ Truthy(data.link) THEN "Success"
  ELSE IF status >= 400 /\ status < 500 THEN "ClientRejected"
  ELSE "ServerError"

\* mutant: body.reason is not consulted
RegisterOutcome_noReason(status, data) ==
  IF data.ok /\ Truthy(data.link) THEN "Success"
  ELSE IF status = 409 THEN "AccountExists"
  ELSE IF status >= 400 /\ status < 500 THEN "ClientRejected"
  ELSE "ServerError"

\* mutant: the 4xx range closed at 500
RegisterOutcome_upTo500(status, data) ==
  IF data.ok /\ Truthy(data.link) THEN "Success"
  ELSE IF status = 409 \/ data.reason = "account_exists" THEN "AccountExists"
  ELSE IF status >= 400 /\ status <= 500 THEN "ClientRejected"
  ELSE "ServerError"

\* mutant: the generic 4xx test placed before the account-exists test
RegisterOutcome_4xxFirst(status, data) ==
  IF data.ok /\ Truthy(data.link) THEN "Success"
  ELSE IF status >= 400 /\ status < 500 /\ status # 409 THEN "ClientRejected"
  ELSE IF status = 409 \/ data.reason = "account_exists" THEN "AccountExists"
  ELSE "ServerError"

\* the if-chain of handleJoinEvent after the await
RegisterOutcome(status, data) ==
  IF data.ok /\ Truthy(data.link) THEN "Success"
  ELSE IF status = 409 \/ data.reason = "account_exists" THEN "AccountExists"
  ELSE IF status >= 400 /\ status < 500 THEN "ClientRejected"
  ELSE "ServerError"

\* mutant: the server's message is dropped
MessageOr_fallbackOnly(data, fallback) == fallback

\* data.message || <fallback>
MessageOr(data, fallback) ==
  IF Truthy(data.message) THEN data.message ELSE fallback

\* mutant: the tokens are stored only as a pair
StoreTokens_pairOnly(st, tokens) ==
  IF Truthy(tokens.access) /\ Truthy(tokens.refresh)
  THEN [access_token |-> tokens.access, refresh_token |-> tokens.refresh]
  ELSE st

\* if (data.tokens?.access) setItem(...); if (data.tokens?.refresh) setItem(...)
StoreTokens(st, tokens) ==
  [access_token |->
     IF Truthy(tokens.access) THEN tokens.access ELSE st.access_token,
   refresh_token |->
     IF Truthy(tokens.refresh) THEN tokens.refresh ELSE st.refresh_token]

\* mutant: the link is not tested
LoginJoinOutcome_okOnly(status, data) ==
  IF data.ok THEN "Success" ELSE "Info"

\* the if/else of doLogin after the join call
LoginJoinOutcome(status, data) ==
  IF data.ok /\ Truthy(data.link) THEN "Success" ELSE "Info"

\* mutant: a join that did not succeed is recorded as a failed login
LoginAfterJoin_okOnSuccess(l, oc) ==
  [l EXCEPT !.loading = FALSE,
            !.ok = (oc = "Success"),
            !.err = IF oc = "Success" THEN "" ELSE JoinFailedMsg]

\* mutant: the info branch forgets to clear loading
LoginAfterJoin_busyOnInfo(l, oc) ==
  [l EXCEPT !.loading = (oc # "Success"), !.ok = TRUE, !.err = ""]

\* setLogin((p) => ({ ...p, loading: false, ok: true, err: "" })), both branches
LoginAfterJoin(l, oc) == [l EXCEPT !.loading = FALSE, !.ok = TRUE, !.err = ""]

\* authErr?.response?.data?.detail || ...non_field_errors?.[0] || "Invalid credentials"
AuthErrorMessage(tok) ==
  IF Truthy(tok.detail) THEN tok.detail
  ELSE IF Truthy(tok.nfe) THEN tok.nfe
  ELSE InvalidCredMsg

\* mutant: the Join button is also disabled outside the join window
JoinDisabled_windowGated == ~canLegallyProceed \/ joining \/ ~canJoinWindow

\* mutant: the Join button looks at the consents only
JoinDisabled_consentOnly == ~canLegallyProceed

\* rendered attributes
JoinDisabled == ~canLegallyProceed \/ joining
LoginDisabled == login.loading
JoinButtonDisabled == ~canLegallyProceed \/ jbLoading

\* the part of the state a step starts from that its effects are compared with
Pre == [joinNotice |-> joinNotice, authMode |-> authMode, storage |-> storage]

\* st0 is localStorage as it was when the handler the step belongs to was invoked
Step(op, res, tok, st0) ==
  [op |-> op, res |-> res, tok |-> tok, pre |-> Pre, st0 |-> st0]

RemoveAt(s, i) == SubSeq(s, 1, i - 1) \o SubSeq(s, i + 1, Len(s))

-----------------------------------------------------------------------------
(* Events and the clock *)

NoEvent == [code |-> NoVal, window_opens_at |-> 0, start_at |-> 0, end_at |-> 0]
\* three events; E3 starts and opens when E1 does
Events ==
  {[code |-> "E1", window_opens_at |-> 1000, start_at |-> 90061500,
    end_at |-> 90062000],
   [code |-> "E2", window_opens_at |-> 500, start_at |-> 3661500,
    end_at |-> 90061000],
   [code |-> "E3", window_opens_at |-> 1000, start_at |-> 90061500,
    end_at |-> 90061500]}
\* the instants at which the model looks at the clock
Instants == {0, 500, 1000, 3661500, 90061000, 90061500, 90062000, 90063000}

NoViewStep == [op |-> "mount", ticked |-> FALSE, target |-> 0, was |-> NoEvent]

initialFilters ==
  [dateFrom |-> "", dateTo |-> "", specialty |-> "All Specialties",
   meetingEvent |-> "All Meetings", searchTerm |-> << >>]

\* the meeting form as resetForm leaves it: no code, no dates, no banner, no
\* expert rows
blankMeetingForm ==
  [code |-> << >>, dates |-> FALSE, banner |-> FALSE, experts |-> << >>]
\* MeetingManagement as mounted: modal closed, not editing, list loading
initialMeeting ==
  [open |-> FALSE, editing |-> FALSE, form |-> blankMeetingForm,
   submitting |-> FALSE, loading |-> TRUE, events |-> "none"]
NoSave == [step |-> "idle", k |-> 0, editing |-> FALSE, form |-> blankMeetingForm]

\* AdminEventAnalytics' data before the analytics request has resolved
NoData == [loaded |-> FALSE, recent_logs |-> << >>]

\* Registrations as mounted: no rows yet, the mount effect's fetch under way
IdleTable ==
  /\ rows = << >>
  /\ filters = initialFilters
  /\ currentPage = 1
  /\ loading = TRUE
  /\ pending = IF page = "Registrations" THEN 1 ELSE 0
  /\ deleting = 0
  /\ delFetch = 0
  /\ csv = << >>
  /\ analytics = NoData
  /\ statusFilter = << >>
  /\ meeting = initialMeeting
  /\ save = NoSave
  /\ sent = << >>

\* no toast pushed yet; the first render has made the first pushToast
IdleToasts ==
  /\ timeouts = {}
  /\ render = 1
  /\ fnT = << 0 >>
  /\ pushes = 0
  /\ toastNo = 0

NoLatest == [done |-> FALSE, event |-> NoEvent, error |-> NoVal]

\* no event request under way; ld is the loading flag
FetchIdle(ld) ==
  /\ code = "E1"
  /\ fetches = {}
  /\ fetchNo = 0
  /\ error = NoVal
  /\ evLoading = ld
  /\ latest = NoLatest

\* a freshly mounted page before its event has loaded
IdleView ==
  /\ FetchIdle(TRUE)
  /\ IdleToasts
  /\ IdleTable
  /\ now = 0
  /\ mounted = TRUE
  /\ event = NoEvent
  /\ canJoinWindow = FALSE
  /\ timeLeft = ""
  /\ secLeft = 0
  /\ intervals = {}
  /\ effectEv = NoEvent
  /\ vstep = NoViewStep

-----------------------------------------------------------------------------
(* Initial state: a freshly mounted page, whatever tokens were persisted *)

InitFlow ==
  /\ page \in {"EventRegistrationPage", "EventPage"}
  /\ form = initialForm
  /\ joining = FALSE
  /\ authMode = "register"
  /\ login = initialLogin
  /\ joinNotice = ""
  /\ toast = NoToast
  /\ storage \in InitStorage
  /\ inflight = << >>
  /\ jbLoading = FALSE
  /\ out = NoEffects
  /\ last = [op |-> "mount", res |-> NoResponse, tok |-> NoTokenResponse,
             pre |-> [joinNotice |-> "", authMode |-> "register",
                      storage |-> storage],
             st0 |-> storage]

Init == InitFlow /\ IdleView

-----------------------------------------------------------------------------
(* Form editing *)

handleFormChange ==
  /\ \E key \in {"email", "accept_policy", "accept_recording"} :
       \E val \in (IF key = "email" THEN Emails ELSE BOOLEAN) :
          /\ val # form[key]
          /\ form' = [form EXCEPT ![key] = val]
  /\ out' = NoEffects
  /\ last' = Step("handleFormChange", NoResponse, NoTokenResponse, storage)
  /\ UNCHANGED extVars
  /\ UNCHANGED << page, joining, authMode, login, joinNotice, toast, storage,
                  inflight, jbLoading >>

setAuthMode ==
  /\ page = "EventRegistrationPage"
  /\ \E m \in {"register", "login"} : m # authMode /\ authMode' = m
  /\ out' = NoEffects
  /\ last' = Step("setAuthMode", NoResponse, NoTokenResponse, storage)
  /\ UNCHANGED extVars
  /\ UNCHANGED << page, form, joining, login, joinNotice, toast, storage,
                  inflight, jbLoading >>

setLoginUser ==
  /\ page = "EventRegistrationPage"
  /\ authMode = "login"
  /\ \E u \in UserNames : u # login.userOrEmail
                          /\ login' = [login EXCEPT !.userOrEmail = u]
  /\ out' = NoEffects
  /\ last' = Step("setLogin", NoResponse, NoTokenResponse, storage)
  /\ UNCHANGED extVars
  /\ UNCHANGED << page, form, joining, authMode, joinNotice, toast, storage,
                  inflight, jbLoading >>

-----------------------------------------------------------------------------
(* Register + join (public) *)

\* handleJoinEvent up to its await
handleJoinEvent ==
  IF ~canLegallyProceed
  THEN /\ toast' = pushToast("error", ConsentMsg)
       /\ out' = [NoEffects EXCEPT !.toasts = << toast' >>]
       /\ UNCHANGED << joining, joinNotice, inflight, storage >>
  ELSE /\ joining' = TRUE
       /\ joinNotice' = ""
       /\ storage' = InterceptStorage(TRUE, storage)
       /\ out' = [NoEffects EXCEPT
                    !.requests = << ApiRequest(RegisterUrl, TRUE, storage) >>]
       /\ inflight' = Append(inflight,
                             [call |-> "registerAndJoin", email |-> form.email,
                              st0 |-> storage])
       /\ UNCHANGED toast

\* a click on the Join button of the register form; a disabled button
\* dispatches no click event
ClickJoin ==
  /\ page = "EventRegistrationPage"
  /\ authMode = "register"
  /\ IF JoinDisabled
     THEN /\ out' = NoEffects
          /\ UNCHANGED << joining, joinNotice, inflight, storage, toast >>
     ELSE handleJoinEvent
  /\ last' = Step("ClickJoin", NoResponse, NoTokenResponse, storage)
  /\ UNCHANGED extVars
  /\ UNCHANGED << page, form, authMode, login, jbLoading >>

\* handleJoinEvent after its await: the register call settled with res
RegisterSettled ==
  \E i \in 1..Len(inflight) : \E res \in Responses :
    /\ page = "EventRegistrationPage"
    /\ inflight[i].call = "registerAndJoin"
    /\ LET data == DataOf(res)
           status == StatusOf(res)
           oc == RegisterOutcome(status, data)
           msg == MessageOr(data, CannedWindowMsg)
           t == CASE oc = "Success" -> pushToast("success", JoiningMsg)
                  [] oc = "AccountExists" -> pushToast("info", AccountExistsMsg)
                  [] oc = "ClientRejected" -> pushToast("info", msg)
                  [] OTHER -> pushToast("error", MessageOr(data, RegErrorMsg))
       IN /\ storage' = StoreTokens(storage, data.tokens)
          /\ toast' = t
          /\ out' = [NoEffects EXCEPT
                       !.toasts = << t >>,
                       !.opened = IF oc = "Success"
                                  THEN << [url |-> data.link, target |-> "_blank"] >>
                                  ELSE << >>]
          /\ authMode' = IF oc = "AccountExists" THEN "login" ELSE authMode
          /\ login' = IF oc = "AccountExists"
                      THEN [login EXCEPT !.userOrEmail = inflight[i].email]
                      ELSE login
          /\ joinNotice' = IF oc = "ClientRejected" THEN msg ELSE joinNotice
          /\ joining' = FALSE
    /\ inflight' = RemoveAt(inflight, i)
    /\ last' = Step("RegisterSettled", res, NoTokenResponse, inflight[i].st0)
    /\ UNCHANGED extVars
    /\ UNCHANGED << page, form, jbLoading >>

-----------------------------------------------------------------------------
(* Login + authenticated join *)

\* doLogin up to the await of authAPI.login
doLogin ==
  /\ login' = [login EXCEPT !.loading = TRUE, !.err = ""]
  /\ joinNotice' = ""
  /\ storage' = InterceptStorage(FALSE, storage)
  /\ out' = [NoEffects EXCEPT
               !.requests = << ApiRequest(TokenUrl, FALSE, storage) >>]
  /\ inflight' = Append(inflight,
                        [call |-> "login", email |-> login.userOrEmail,
                         st0 |-> storage])

\* submitting the login form; a disabled submit button blocks submission
SubmitLogin ==
  /\ page = "EventRegistrationPage"
  /\ authMode = "login"
  /\ IF LoginDisabled
     THEN /\ out' = NoEffects
          /\ UNCHANGED << login, joinNotice, storage, inflight >>
     ELSE doLogin
  /\ last' = Step("SubmitLogin", NoResponse, NoTokenResponse, storage)
  /\ UNCHANGED extVars
  /\ UNCHANGED << page, form, joining, authMode, toast, jbLoading >>

\* doLogin after the token call settled: the catch branch, or the stores
\* followed by the join call
TokenSettled ==
  \E i \in 1..Len(inflight) : \E tok \in TokenResponses :
    /\ page = "EventRegistrationPage"
    /\ inflight[i].call = "login"
    /\ IF tok.ok
       THEN /\ storage' = [access_token |-> tok.access,
                           refresh_token |-> tok.refresh]
            /\ out' = [NoEffects EXCEPT !.requests = << AxiosRequest(JoinUrl) >>]
            /\ inflight' = [inflight EXCEPT ![i].call = "joinAuth"]
            /\ UNCHANGED << login, toast >>
       ELSE /\ login' = [login EXCEPT !.loading = FALSE,
                                      !.err = AuthErrorMessage(tok),
                                      !.ok = FALSE]
            /\ toast' = pushToast("error", AuthErrorMessage(tok))
            /\ out' = [NoEffects EXCEPT !.toasts = << toast' >>]
            /\ inflight' = RemoveAt(inflight, i)
            /\ UNCHANGED storage
    /\ last' = Step("TokenSettled", NoResponse, tok, inflight[i].st0)
    /\ UNCHANGED extVars
    /\ UNCHANGED << page, form, joining, authMode, joinNotice, jbLoading >>

\* doLogin after the join call settled
JoinAuthSettled ==
  \E i \in 1..Len(inflight) : \E res \in Responses :
    /\ page = "EventRegistrationPage"
    /\ inflight[i].call = "joinAuth"
    /\ LET jdata == DataOf(res)
           oc == LoginJoinOutcome(StatusOf(res), jdata)
           msg == MessageOr(jdata, CannedWindowMsg)
           t == IF oc = "Success" THEN pushToast("success", JoiningMsg)
                ELSE pushToast("info", msg)
       IN /\ toast' = t
          /\ out' = [NoEffects EXCEPT
                       !.toasts = << t >>,
                       !.opened = IF oc = "Success"
                                  THEN << [url |-> jdata.link, target |-> "_blank"] >>
                                  ELSE << >>]
          /\ joinNotice' = IF oc = "Success" THEN joinNotice ELSE msg
          /\ login' = LoginAfterJoin(login, oc)
    /\ inflight' = RemoveAt(inflight, i)
    /\ last' = Step("JoinAuthSettled", res, NoTokenResponse, inflight[i].st0)
    /\ UNCHANGED extVars
    /\ UNCHANGED << page, form, joining, authMode, storage, jbLoading >>

-----------------------------------------------------------------------------
(* EventPage: JoinButton *)

\* JoinButton.handleClick up to its await; disabled is !canLegallyProceed
handleClick ==
  IF ~canLegallyProceed \/ jbLoading
  THEN /\ out' = NoEffects
       /\ UNCHANGED << jbLoading, inflight, storage >>
  ELSE /\ jbLoading' = TRUE
       /\ storage' = InterceptStorage(TRUE, storage)
       /\ out' = [NoEffects EXCEPT
                    !.requests = << ApiRequest(OpenUrl, TRUE, storage) >>]
       /\ inflight' = Append(inflight,
                             [call |-> "openEvent", email |-> form.email,
                              st0 |-> storage])

ClickJoinButton ==
  /\ page = "EventPage"
  /\ IF JoinButtonDisabled
     THEN /\ out' = NoEffects
          /\ UNCHANGED << jbLoading, inflight, storage >>
     ELSE handleClick
  /\ last' = Step("ClickJoinButton", NoResponse, NoTokenResponse, storage)
  /\ UNCHANGED extVars
  /\ UNCHANGED << page, form, joining, authMode, login, joinNotice, toast >>

\* handleClick after its await: resolved on 2xx, rejected otherwise
OpenSettled ==
  \E i \in 1..Len(inflight) : \E res \in Responses :
    /\ page = "EventPage"
    /\ inflight[i].call = "openEvent"
    /\ LET data == DataOf(res)
           resolved == res.present /\ res.status >= 200 /\ res.status < 300
           errMessage == IF res.present THEN "Request failed" ELSE "Network Error"
       IN out' = IF resolved /\ data.ok /\ Truthy(data.link)
                 THEN [NoEffects EXCEPT !.navigated = << data.link >>]
                 ELSE IF resolved
                 THEN [NoEffects EXCEPT !.alerts = << MessageOr(data, UnableMsg) >>]
                 ELSE [NoEffects EXCEPT !.alerts = << MessageOr(data, errMessage) >>]
    /\ jbLoading' = FALSE
    /\ inflight' = RemoveAt(inflight, i)
    /\ last' = Step("OpenSettled", res, NoTokenResponse, inflight[i].st0)
    /\ UNCHANGED extVars
    /\ UNCHANGED << page, form, joining, authMode, login, joinNotice, toast,
                    storage >>

-----------------------------------------------------------------------------

\* the register flow of EventRegistrationPage and the JoinButton of EventPage
NextRegister ==
  \/ handleFormChange
  \/ setAuthMode
  \/ ClickJoin
  \/ RegisterSettled
  \/ ClickJoinButton
  \/ OpenSettled

SpecRegister == Init /\ [][NextRegister]_vars

\* the login flow of EventRegistrationPage
NextLogin ==
  \/ setAuthMode
  \/ setLoginUser
  \/ SubmitLogin
  \/ TokenSettled
  \/ JoinAuthSettled

InitLogin == Init /\ page = "EventRegistrationPage"

SpecLogin == InitLogin /\ [][NextLogin]_vars

-----------------------------------------------------------------------------
(* Reading the last step *)

\* the (status, body) pair the settled call produced; no response is status 0, {}
ResStatus == IF last.res.present THEN last.res.status ELSE 0
ResBody == last.res.data
OkWithLink == ResBody.ok /\ ResBody.link \notin {NoVal, ""}
AccountExistsCase == ResStatus = 409 \/ ResBody.reason = "account_exists"
OpenedInNewContext(link) == << [url |-> link, target |-> "_blank"] >>

\* the outcome a settle step took, read off its effects
ObservedOutcome ==
  IF Len(out.toasts) # 1 THEN "None"
  ELSE IF out.opened # << >> /\ out.toasts[1].type = "success" THEN "Success"
  ELSE IF out.opened # << >> THEN "None"
  ELSE IF out.toasts[1].type = "error" THEN "ServerError"
  ELSE IF out.toasts[1] = [type |-> "info", message |-> AccountExistsMsg]
       THEN "AccountExists"
  ELSE IF out.toasts[1].type = "info" /\ joinNotice = out.toasts[1].message
       THEN "ClientRejected"
  ELSE "None"

-----------------------------------------------------------------------------
(* Claims *)

\* C1: when accept_policy or accept_recording is false, a Join click
\* (handleJoinEvent, or JoinButton.handleClick with disabled=true) issues no
\* network request, whatever the other fields and the rest of the state are.
C1_ConsentGate ==
  (/\ last.op \in {"ClickJoin", "ClickJoinButton"}
   /\ (~form.accept_policy \/ ~form.accept_recording))
  => out.requests = << >>

C1_Witness ==
  /\ last.op = "ClickJoin"
  /\ form.accept_policy /\ ~form.accept_recording
  /\ form.email = "a@x.org"
  /\ out.requests = << >>

\* C2: a register response with body.ok true and a non-empty body.link opens
\* exactly that link in a new browsing context exactly once, pushes exactly one
\* success notice, sets no inline join notice and does not switch to login mode.
C2_SuccessfulJoin ==
  (last.op = "RegisterSettled" /\ last.res.present /\ OkWithLink)
  => /\ out.opened = OpenedInNewContext(ResBody.link)
     /\ Len(out.toasts) = 1
     /\ out.toasts[1].type = "success"
     /\ toast = out.toasts[1]
     /\ joinNotice = last.pre.joinNotice
     /\ authMode = last.pre.authMode

C2_Witness ==
  /\ last.op = "RegisterSettled"
  /\ last.res.present /\ last.res.status = 200
  /\ ResBody.ok /\ ResBody.link = "https://x"
  /\ out.opened = OpenedInNewContext("https://x")

\* C3: status 409 or body.reason = "account_exists" (not ok-with-link) shows
\* the info notice telling the user to log in, no error notice, and opens no link.
C3_AccountExists ==
  (last.op = "RegisterSettled" /\ AccountExistsCase /\ ~OkWithLink)
  => /\ out.toasts = << [type |-> "info", message |-> AccountExistsMsg] >>
     /\ toast.type = "info"
     /\ out.opened = << >>

C3_Witness ==
  /\ last.op = "RegisterSettled"
  /\ ResStatus = 500 /\ ResBody.reason = "account_exists"
  /\ out.toasts = << [type |-> "info", message |-> AccountExistsMsg] >>

\* C4: a status in [400,500) outside the account-exists case sets the inline
\* join notice to body.message verbatim when a message is there and to the
\* canned window explanation when it is not; the notice is info-type and no
\* link is opened.
C4_BusinessRejection ==
  (/\ last.op = "RegisterSettled"
   /\ ResStatus >= 400 /\ ResStatus < 500
   /\ ~AccountExistsCase /\ ~OkWithLink)
  => /\ joinNotice = IF ResBody.message \notin {NoVal, ""}
                     THEN ResBody.message
                     ELSE CannedWindowMsg
     /\ out.toasts = << [type |-> "info", message |-> joinNotice] >>
     /\ out.opened = << >>

C4_Witness ==
  /\ last.op = "RegisterSettled"
  /\ ResStatus = 400 /\ ResBody.message = "too early"
  /\ ~ResBody.ok
  /\ joinNotice = "too early"

\* C5: no response at all (status 0) or a status >= 500, with a body that is
\* neither ok-with-link nor account_exists, shows one error notice, sets no
\* inline join notice, opens no link and leaves the auth mode as it was.
C5_ServerFailure ==
  (/\ last.op = "RegisterSettled"
   /\ (~last.res.present \/ ResStatus >= 500)
   /\ ~OkWithLink /\ ResBody.reason # "account_exists")
  => /\ Len(out.toasts) = 1
     /\ out.toasts[1].type = "error"
     /\ joinNotice = last.pre.joinNotice
     /\ out.opened = << >>
     /\ authMode = last.pre.authMode

C5_Witness ==
  /\ last.op = "RegisterSettled"
  /\ ~last.res.present
  /\ authMode = "register"
  /\ out.toasts = << [type |-> "error", message |-> RegErrorMsg] >>

\* C6: every (status, body) of the register call takes exactly one of the four
\* outcomes, first match in the order Success, AccountExists, ClientRejected,
\* ServerError: ok-with-link wins over any status, 409 / account_exists wins
\* over the generic 4xx branch and over a 5xx status.
C6_DecisionOrder ==
  last.op = "RegisterSettled"
  => /\ ObservedOutcome \in {"Success", "AccountExists", "ClientRejected",
                             "ServerError"}
     /\ OkWithLink => ObservedOutcome = "Success"
     /\ (~OkWithLink /\ AccountExistsCase) => ObservedOutcome = "AccountExists"
     /\ (~OkWithLink /\ ~AccountExistsCase /\ ResStatus >= 400 /\ ResStatus < 500)
          => ObservedOutcome = "ClientRejected"
     /\ (~OkWithLink /\ ~AccountExistsCase /\ ~(ResStatus >= 400 /\ ResStatus < 500))
          => ObservedOutcome = "ServerError"

C6_Witness ==
  /\ last.op = "RegisterSettled"
  /\ ResStatus = 400 /\ ResBody.reason = "account_exists" /\ ~OkWithLink
  /\ ObservedOutcome = "AccountExists"

\* C7: when the token call fails, doLogin issues no join request, sets
\* login.err to the failure message with login.ok false, shows an error
\* notice, opens no link and leaves the persisted access_token and
\* refresh_token as they were when doLogin was invoked.
C7_AuthFailureBlocks ==
  (last.op = "TokenSettled" /\ ~last.tok.ok)
  => /\ out.requests = << >>
     /\ login.err = (IF last.tok.detail \notin {NoVal, ""} THEN last.tok.detail
                     ELSE IF last.tok.nfe \notin {NoVal, ""} THEN last.tok.nfe
                     ELSE InvalidCredMsg)
     /\ ~login.ok
     /\ out.toasts = << [type |-> "error", message |-> login.err] >>
     /\ out.opened = << >>
     /\ storage = last.st0

\* C8: after a successful token call, whatever the join call returns (any
\* status, any body, no response), doLogin ends with login.err empty and
\* login.ok true and shows no error notice; a join that is not ok-with-link
\* gives one info notice and the inline join notice.
C8_JoinFailureIsNotLoginError ==
  /\ (last.op = "TokenSettled" /\ last.tok.ok)
       => \A i \in 1..Len(out.toasts) : out.toasts[i].type # "error"
  /\ last.op = "JoinAuthSettled"
       => /\ login.err = ""
          /\ login.ok
          /\ \A i \in 1..Len(out.toasts) : out.toasts[i].type # "error"
          /\ ~OkWithLink
               => /\ Len(out.toasts) = 1
                  /\ out.toasts[1].type = "info"
                  /\ joinNotice = out.toasts[1].message
                  /\ joinNotice # ""
                  /\ out.opened = << >>

C8_Witness ==
  /\ last.op = "JoinAuthSettled"
  /\ ResStatus = 500 /\ ~ResBody.ok
  /\ login.ok /\ login.err = ""
  /\ out.toasts = << [type |-> "info", message |-> CannedWindowMsg] >>

\* C9 as stated: the join step of doLogin takes, for every (status, body),
\* the outcome handleJoinEvent would take for it.
C9_IdenticalBranching ==
  last.op = "JoinAuthSettled"
  => ObservedOutcome = RegisterOutcome(ResStatus, ResBody)

\* C9 amended: the join step of doLogin does not look at the status. It takes
\* Success on ok-with-link, as handleJoinEvent does, and handles every other
\* response the way handleJoinEvent handles ClientRejected (info notice and
\* inline notice); the two agree exactly on the responses handleJoinEvent
\* classifies as Success or ClientRejected.
C9_TwoWayBranching ==
  last.op = "JoinAuthSettled"
  => /\ OkWithLink => /\ ObservedOutcome = "Success"
                      /\ out.opened = OpenedInNewContext(ResBody.link)
     /\ ~OkWithLink => ObservedOutcome = "ClientRejected"
     /\ (ObservedOutcome = RegisterOutcome(ResStatus, ResBody))
          <=> (RegisterOutcome(ResStatus, ResBody) \in {"Success", "ClientRejected"})

C9_Witness ==
  /\ last.op = "JoinAuthSettled"
  /\ ResStatus = 409 /\ ~OkWithLink
  /\ RegisterOutcome(ResStatus, ResBody) = "AccountExists"
  /\ ObservedOutcome = "ClientRejected"

\* C10: after a successful token call stores access token T, the POST to the
\* event join endpoint made by doLogin carries Authorization: Bearer T.
C10_JoinCarriesBearer ==
  (last.op = "TokenSettled" /\ last.tok.ok)
  => /\ storage.access_token = last.tok.access
     /\ Len(out.requests) = 1
     /\ out.requests[1].url = JoinUrl
     /\ out.requests[1].authorization = "Bearer " \o last.tok.access

\* C11: a register response that carries tokens.access (tokens.refresh) leaves
\* the persisted access_token (refresh_token) equal to the returned value once
\* the attempt is handled, on every outcome branch; a response without tokens
\* leaves both persisted tokens as they were when Join was clicked.
C11_TokensPersisted ==
  last.op = "RegisterSettled"
  => /\ ResBody.tokens.access \notin {NoVal, ""}
          => storage.access_token = ResBody.tokens.access
     /\ ResBody.tokens.refresh \notin {NoVal, ""}
          => storage.refresh_token = ResBody.tokens.refresh
     /\ ResBody.tokens = NoTokens => storage = last.st0

C11_Witness ==
  /\ last.op = "RegisterSettled"
  /\ ResStatus = 500 /\ ~OkWithLink
  /\ ResBody.tokens = [access |-> "A_reg", refresh |-> NoVal]
  /\ last.st0 = [access_token |-> "A_old", refresh_token |-> "R_old"]
  /\ storage = [access_token |-> "A_reg", refresh_token |-> "R_old"]

-----------------------------------------------------------------------------
(* The two shared clients on their own: utils/api and services/api *)

MeUrl == "/api/auth/me/"
JoinsUrl == "/api/joins/"
Urls == {RegisterUrl, TokenUrl, MeUrl, JoinsUrl}

\* url.startsWith("/api/auth/")
StartsWithApiAuth(url) == url \in {TokenUrl, MeUrl}

\* mutant: services/api looks at skipAuth only
ServicesInterceptHeader_flagOnly(url, skipAuth, st) ==
  IF skipAuth \/ st.access_token = NoVal THEN NoVal
  ELSE "Bearer " \o st.access_token

\* request interceptor of services/api: no expiry test, /api/auth/* left alone
ServicesInterceptHeader(url, skipAuth, st) ==
  IF skipAuth \/ StartsWithApiAuth(url) THEN NoVal
  ELSE IF st.access_token # NoVal
       THEN "Bearer " \o st.access_token
       ELSE NoVal

ServicesRequest(url, skipAuth, st) ==
  [client |-> "services/api", method |-> "POST", url |-> url,
   skipAuth |-> skipAuth,
   authorization |-> ServicesInterceptHeader(url, skipAuth, st)]

pageVars ==
  << page, form, joining, authMode, login, joinNotice, toast, inflight,
     jbLoading >>

\* any call through utils/api
UtilsApiSend ==
  \E url \in Urls, skipAuth \in BOOLEAN :
    /\ out' = [NoEffects EXCEPT
                 !.requests = << ApiRequest(url, skipAuth, storage) >>]
    /\ storage' = InterceptStorage(skipAuth, storage)
    /\ last' = Step("UtilsApiSend", NoResponse, NoTokenResponse, storage)
    /\ UNCHANGED extVars
    /\ UNCHANGED pageVars

\* any call through services/api
ServicesApiSend ==
  \E url \in Urls, skipAuth \in BOOLEAN :
    /\ out' = [NoEffects EXCEPT
                 !.requests = << ServicesRequest(url, skipAuth, storage) >>]
    /\ last' = Step("ServicesApiSend", NoResponse, NoTokenResponse, storage)
    /\ UNCHANGED extVars
    /\ UNCHANGED << storage, pageVars >>

\* setTokens(tokens) of services/api
setTokens ==
  \E tokens \in TokenPairs \cup {[access |-> "A_stale", refresh |-> NoVal]} :
    /\ storage' = StoreTokens(storage, tokens)
    /\ out' = NoEffects
    /\ last' = Step("setTokens", NoResponse, NoTokenResponse, storage)
    /\ UNCHANGED extVars
    /\ UNCHANGED pageVars

clearTokens ==
  /\ storage' = [access_token |-> NoVal, refresh_token |-> NoVal]
  /\ out' = NoEffects
  /\ last' = Step("clearTokens", NoResponse, NoTokenResponse, storage)
  /\ UNCHANGED extVars
  /\ UNCHANGED pageVars

NextClient == UtilsApiSend \/ ServicesApiSend \/ setTokens \/ clearTokens
SpecClient == Init /\ [][NextClient]_vars

SentRequest == out.requests[1]
ClientSent == last.op \in {"UtilsApiSend", "ServicesApiSend"}

\* C12 as stated: a request through a shared client that is not marked
\* skipAuth carries Authorization: Bearer <access_token> whenever an
\* access_token is persisted, and a request marked skipAuth carries no
\* Authorization header.
C12_BearerWheneverPersisted ==
  ClientSent
  => /\ (~SentRequest.skipAuth /\ last.st0.access_token # NoVal)
          => SentRequest.authorization = "Bearer " \o last.st0.access_token
     /\ SentRequest.skipAuth => SentRequest.authorization = NoVal

\* C12 amended: utils/api attaches Bearer <access_token> to a request not
\* marked skipAuth exactly when the persisted token is present and unexpired,
\* and removes an expired one; services/api attaches it exactly when a token
\* is persisted and the URL is not under /api/auth/; a skipAuth request
\* carries no Authorization header and leaves the storage alone.
C12_BearerRule ==
  /\ last.op = "UtilsApiSend"
       => /\ SentRequest.authorization =
               IF /\ ~SentRequest.skipAuth
                  /\ last.st0.access_token \notin {NoVal} \cup ExpiredTokens
               THEN "Bearer " \o last.st0.access_token
               ELSE NoVal
          /\ storage.access_token =
               IF ~SentRequest.skipAuth /\ last.st0.access_token \in ExpiredTokens
               THEN NoVal
               ELSE last.st0.access_token
          /\ storage.refresh_token = last.st0.refresh_token
  /\ last.op = "ServicesApiSend"
       => /\ SentRequest.authorization =
               IF /\ ~SentRequest.skipAuth
                  /\ SentRequest.url \notin {TokenUrl, MeUrl}
                  /\ last.st0.access_token # NoVal
               THEN "Bearer " \o last.st0.access_token
               ELSE NoVal
          /\ storage = last.st0

C12_Witness ==
  /\ last.op = "UtilsApiSend"
  /\ ~SentRequest.skipAuth
  /\ last.st0.access_token = "A_stale"
  /\ SentRequest.authorization = NoVal
  /\ storage.access_token = NoVal

-----------------------------------------------------------------------------
(* The event view: loading, the join window and the countdown *)

flowVars == << pageVars, storage, out, last, tableVars, adminVars >>

\* the pages that load an event by its code
EventPages == {"EventRegistrationPage", "EventPage"}

\* mutant: the window is open at both ends
canJoin_exclusive(ev, t) ==
  IF ev = NoEvent THEN FALSE
  ELSE t > ev.window_opens_at /\ t < ev.end_at

\* the useMemo body: now >= window_opens_at && now <= end_at, false without event
canJoin(ev, t) ==
  IF ev = NoEvent THEN FALSE
  ELSE t >= ev.window_opens_at /\ t <= ev.end_at

\* String(n).padStart(2, "0")
two(n) == IF n < 10 THEN "0" \o ToString(n) ELSE ToString(n)

\* mutant: the hours are not reduced modulo a day
TimeLeftAt_totalHours(start, t) ==
  LET diff == start - t IN
  IF diff > 0
  THEN LET d == diff \div (1000 * 60 * 60 * 24)
           h == diff \div (1000 * 60 * 60)
           m == (diff % (1000 * 60 * 60)) \div (1000 * 60)
           sec == (diff % (1000 * 60)) \div 1000
       IN (IF d > 0 THEN ToString(d) \o "d " ELSE "")
            \o two(h) \o ":" \o two(m) \o ":" \o two(sec)
  ELSE "Event Started"

\* the text EventRegistrationPage's tick() passes to setTimeLeft
TimeLeftAt(start, t) ==
  LET diff == start - t IN
  IF diff > 0
  THEN LET d == diff \div (1000 * 60 * 60 * 24)
           h == (diff % (1000 * 60 * 60 * 24)) \div (1000 * 60 * 60)
           m == (diff % (1000 * 60 * 60)) \div (1000 * 60)
           sec == (diff % (1000 * 60)) \div 1000
       IN (IF d > 0 THEN ToString(d) \o "d " ELSE "")
            \o two(h) \o ":" \o two(m) \o ":" \o two(sec)
  ELSE "Event Started"

\* Math.max(0, Math.floor((target - now) / 1000))
secondsUntil(target, t) ==
  LET sec == (target - t) \div 1000 IN IF sec > 0 THEN sec ELSE 0

\* what the countdown of the mounted page counts down to
CountdownTarget(ev) ==
  IF page = "EventRegistrationPage" THEN ev.start_at ELSE ev.window_opens_at

\* the countdown effect's dependency, event?.start_at or event?.window_opens_at
SameEffectKey(e1, e2) ==
  /\ (e1 = NoEvent) = (e2 = NoEvent)
  /\ CountdownTarget(e1) = CountdownTarget(e2)

\* tick() of an interval (or of the effect body) whose closure holds ev
TickState(ev) ==
  /\ IF page = "EventRegistrationPage"
     THEN /\ timeLeft' = TimeLeftAt(ev.start_at, now)
          /\ UNCHANGED secLeft
     ELSE /\ secLeft' = secondsUntil(ev.window_opens_at, now)
          /\ UNCHANGED timeLeft

\* mutant: the effect re-runs without its cleanup
RunCountdownEffect_noCleanup(ev) ==
  IF SameEffectKey(event, ev)
  THEN UNCHANGED << timeLeft, secLeft, intervals, effectEv >>
  ELSE IF ev = NoEvent
       THEN /\ effectEv' = NoEvent
            /\ UNCHANGED << timeLeft, secLeft, intervals >>
       ELSE /\ TickState(ev)
            /\ intervals' = intervals \cup {[ev |-> ev]}
            /\ effectEv' = ev

\* a render after setEvent(ev): the countdown effect runs when its key changed,
\* first the previous run's cleanup, then the body
RunCountdownEffect(ev) ==
  IF SameEffectKey(event, ev)
  THEN UNCHANGED << timeLeft, secLeft, intervals, effectEv >>
  ELSE IF ev = NoEvent
       THEN /\ intervals' = intervals \ {[ev |-> effectEv]}
            /\ effectEv' = NoEvent
            /\ UNCHANGED << timeLeft, secLeft >>
       ELSE /\ TickState(ev)
            /\ intervals' = (intervals \ {[ev |-> effectEv]}) \cup {[ev |-> ev]}
            /\ effectEv' = ev

ViewStep(op, ticked, target) ==
  [op |-> op, ticked |-> ticked, target |-> target, was |-> event]

\* the load effect's request resolves: setEvent(res.data)
LoadEvent ==
  \E ev \in Events :
    /\ mounted
    /\ page \in EventPages
    /\ event' = ev
    /\ canJoinWindow' = canJoin(ev, now)
    /\ RunCountdownEffect(ev)
    /\ vstep' = ViewStep("LoadEvent", ~SameEffectKey(event, ev),
                         CountdownTarget(ev))
    /\ UNCHANGED << now, mounted, flowVars, toastVars, fetchVars >>

\* the load effect's request fails: setEvent(null)
LoadFailed ==
  /\ mounted
  /\ page \in EventPages
  /\ event' = NoEvent
  /\ canJoinWindow' = canJoin(NoEvent, now)
  /\ RunCountdownEffect(NoEvent)
  /\ vstep' = ViewStep("LoadFailed", FALSE, 0)
  /\ UNCHANGED << now, mounted, flowVars, toastVars, fetchVars >>

\* an interval fires its tick
Tick ==
  \E i \in intervals :
    /\ IF mounted THEN TickState(i.ev) ELSE UNCHANGED << timeLeft, secLeft >>
    /\ vstep' = ViewStep("Tick", mounted, CountdownTarget(i.ev))
    /\ UNCHANGED << now, mounted, event, canJoinWindow, intervals, effectEv,
                    flowVars, toastVars, fetchVars >>

\* the clock moves on
AdvanceClock ==
  /\ \E t \in Instants : t > now /\ now' = t
  /\ vstep' = ViewStep("AdvanceClock", FALSE, 0)
  /\ UNCHANGED << mounted, event, canJoinWindow, timeLeft, secLeft, intervals,
                  effectEv, flowVars, toastVars, fetchVars >>

\* the cleanup of the fetch effect: EventPage sets `on` to false,
\* EventRegistrationPage's load effect has no cleanup
FetchCleanup ==
  IF page = "EventPage"
  THEN {[f EXCEPT !.on = FALSE] : f \in fetches}
  ELSE fetches

\* the route changes: React runs the cleanups of the page's effects
Unmount ==
  /\ mounted
  /\ mounted' = FALSE
  /\ intervals' = intervals \ {[ev |-> effectEv]}
  /\ effectEv' = NoEvent
  /\ fetches' = FetchCleanup
  /\ vstep' = ViewStep("Unmount", FALSE, 0)
  /\ UNCHANGED << now, event, canJoinWindow, timeLeft, secLeft, flowVars, toastVars,
                  code, fetchNo, error, evLoading, latest >>

NextCountdown == LoadEvent \/ LoadFailed \/ Tick \/ AdvanceClock \/ Unmount
SpecCountdown == Init /\ [][NextCountdown]_vars

\* C13: the window predicate, whenever it is evaluated, is true iff an event is
\* loaded and window_opens_at <= now <= end_at, both ends included.
C13_WindowPredicate ==
  vstep.op \in {"mount", "LoadEvent", "LoadFailed"}
  => (canJoinWindow <=> /\ event.code # NoVal
                        /\ event.window_opens_at <= now
                        /\ now <= event.end_at)

C13_Witness ==
  /\ vstep.op = "LoadEvent"
  /\ now = event.end_at
  /\ event.window_opens_at < now
  /\ canJoinWindow

\* the text for a whole number of remaining seconds
EncodeSeconds(total) ==
  LET d == total \div 86400
      h == (total % 86400) \div 3600
      m == (total % 3600) \div 60
      sec == total % 60
  IN (IF d > 0 THEN ToString(d) \o "d " ELSE "")
       \o two(h) \o ":" \o two(m) \o ":" \o two(sec)

\* C15: every tick of EventRegistrationPage's countdown displays "Event Started"
\* iff start_at - now <= 0 and otherwise the days, hours, minutes and seconds of
\* floor((start_at - now) / 1000) seconds; while the same event stays displayed
\* and the clock does not go back, "Event Started" is never replaced.
C15_Countdown ==
  [][ /\ (vstep'.ticked /\ page' = "EventRegistrationPage")
          => /\ (timeLeft' = "Event Started") <=> (vstep'.target - now' <= 0)
             /\ vstep'.target - now' > 0
                  => timeLeft' = EncodeSeconds((vstep'.target - now') \div 1000)
      /\ (timeLeft = "Event Started" /\ event # NoEvent /\ event' = event)
          => timeLeft' = "Event Started" ]_vars

C15_Witness ==
  /\ page = "EventRegistrationPage"
  /\ vstep.op = "Tick" /\ vstep.ticked
  /\ vstep.target - now = 86400000
  /\ timeLeft = "1d 00:00:00"

\* C16 as stated: at most one countdown interval is active, and whenever the
\* displayed event changes to a different event the previous interval is
\* cancelled and the active interval is the one computing against the new event.
C16_CancelledOnEveryEventChange ==
  [][ /\ Cardinality(intervals') <= 1
      /\ (event' # event /\ event' # NoEvent)
          => /\ intervals \cap intervals' = {}
             /\ intervals' = {[ev |-> event']} ]_vars

\* C16 amended: at most one countdown interval is active; it is cancelled when
\* the displayed event's countdown target (start_at, or window_opens_at on
\* EventPage) changes or the event goes away; a change to another event with
\* the same target keeps the running interval; while an event is displayed on
\* a mounted page the active interval counts down to that event's target.
C16_OneIntervalPerTarget ==
  [][ /\ Cardinality(intervals') <= 1
      /\ ( \/ (event = NoEvent) # (event' = NoEvent)
           \/ CountdownTarget(event) # CountdownTarget(event') )
          => intervals \cap intervals' = {}
      /\ (event # NoEvent /\ event' # NoEvent /\ mounted'
           /\ CountdownTarget(event) = CountdownTarget(event'))
          => intervals' = intervals
      /\ (event' # NoEvent /\ mounted')
          => \E i \in intervals' :
                CountdownTarget(i.ev) = CountdownTarget(event') ]_vars

C16_Witness ==
  /\ vstep.op = "LoadEvent"
  /\ vstep.was.code = "E1"
  /\ event.code = "E3"
  /\ \E i \in intervals : i.ev.code = "E1"

-----------------------------------------------------------------------------
(* The register flow on a page whose event has loaded *)

\* the view right after the first LoadEvent, which happened at time t
LoadedViewAt(ev, t) ==
  /\ FetchIdle(FALSE)
  /\ IdleToasts
  /\ IdleTable
  /\ now = t
  /\ mounted = TRUE
  /\ event = ev
  /\ canJoinWindow = canJoin(ev, t)
  /\ timeLeft = TimeLeftAt(ev.start_at, t)
  /\ secLeft = 0
  /\ intervals = {[ev |-> ev]}
  /\ effectEv = ev
  /\ vstep = [op |-> "LoadEvent", ticked |-> TRUE, target |-> ev.start_at,
              was |-> NoEvent]

\* EventRegistrationPage with an event loaded before or inside its join window
InitWindow ==
  /\ InitFlow
  /\ page = "EventRegistrationPage"
  /\ storage = [access_token |-> NoVal, refresh_token |-> NoVal]
  /\ \E ev \in Events :
       /\ ev.code = "E1"
       /\ \E t \in {0, 3661500} : LoadedViewAt(ev, t)

NextWindow == handleFormChange \/ ClickJoin \/ RegisterSettled
SpecWindow == InitWindow /\ [][NextWindow]_vars

\* C14: the join window value takes no part in a join attempt: a click on Join
\* issues the register request iff both consents are given and no attempt is
\* in progress, and a settled attempt opens the link iff the response is ok
\* with a link, whether canJoinWindow is true or false.
C14_WindowIsAdvisory ==
  [][ /\ last'.op = "ClickJoin"
          => ((out'.requests # << >>)
                <=> (form.accept_policy /\ form.accept_recording /\ ~joining))
      /\ last'.op = "RegisterSettled"
          => ((out'.opened # << >>) <=> OkWithLink') ]_vars

C14_Witness ==
  /\ last.op = "ClickJoin"
  /\ ~canJoinWindow
  /\ now < event.window_opens_at
  /\ Len(out.requests) = 1
  /\ out.requests[1].url = RegisterUrl

-----------------------------------------------------------------------------
(* Toasts and their auto-dismiss timers *)

ToastMs == 4200
NotificationMs == 4500
MaxPushes == 2
MaxNow == 8400

\* the admin pages' toast(type, message) has no clearTimeout
AdminPages == {"Registrations"}

ToastInputs ==
  {pushToast("error", ConsentMsg), pushToast("info", AccountExistsMsg)}

\* window.clearTimeout(handle); clearTimeout(undefined) does nothing
ClearTimeout(ts, handle) == {t \in ts : t.id # handle}

\* a state update on a mounted component renders again: a new pushToast
\* function object, whose _t is undefined
Rerender ==
  /\ render' = render + 1
  /\ fnT' = Append(fnT, 0)

\* lines 2 and 3 of pushToast, called on render r's function object, and the
\* render that its setToast causes
PushToastTimers(r) ==
  /\ timeouts' = ClearTimeout(timeouts, fnT[r])
                   \cup {[id |-> pushes + 1, due |-> now + ToastMs]}
  /\ IF mounted
     THEN /\ render' = render + 1
          /\ fnT' = Append([fnT EXCEPT ![r] = pushes + 1], 0)
     ELSE /\ fnT' = [fnT EXCEPT ![r] = pushes + 1]
          /\ UNCHANGED render

countdownVars ==
  << event, canJoinWindow, timeLeft, secLeft, intervals, effectEv >>
idleFlowVars ==
  << page, form, joining, authMode, login, joinNotice, inflight, jbLoading,
     storage, out, last, tableVars, fetchVars, adminVars >>

\* EventRegistrationPage's pushToast(type, message), called by a handler that
\* was created in render r (the current render, or an earlier one when the
\* handler is past an await)
PushToast ==
  \E r \in 1..render : \E t \in ToastInputs :
    /\ page = "EventRegistrationPage"
    /\ pushes < MaxPushes
    /\ pushes' = pushes + 1
    /\ IF mounted
       THEN toast' = t /\ toastNo' = pushes + 1
       ELSE UNCHANGED << toast, toastNo >>
    /\ PushToastTimers(r)
    /\ vstep' = ViewStep("PushToast", FALSE, 0)
    /\ UNCHANGED << now, mounted, countdownVars, idleFlowVars >>

\* the body of the admin pages' toast(type, message) and the render it causes
toastFn(t) ==
  /\ pushes' = pushes + 1
  /\ timeouts' = timeouts \cup {[id |-> pushes + 1, due |-> now + NotificationMs]}
  /\ IF mounted
     THEN toast' = t /\ toastNo' = pushes + 1 /\ Rerender
     ELSE UNCHANGED << toast, toastNo, render, fnT >>

\* the admin pages' toast(type, message)
Notify ==
  \E t \in ToastInputs :
    /\ page \in AdminPages
    /\ pushes < MaxPushes
    /\ toastFn(t)
    /\ vstep' = ViewStep("Notify", FALSE, 0)
    /\ UNCHANGED << now, mounted, countdownVars, idleFlowVars >>

\* a timeout comes due: () => setToast(null) / setNotification(null)
ToastExpires ==
  \E t \in timeouts :
    /\ now >= t.due
    /\ timeouts' = timeouts \ {t}
    /\ IF mounted /\ toast # NoToast
       THEN toast' = NoToast /\ toastNo' = 0 /\ Rerender
       ELSE UNCHANGED << toast, toastNo, render, fnT >>
    /\ vstep' = [ViewStep("ToastExpires", FALSE, 0) EXCEPT !.target = t.id]
    /\ UNCHANGED << now, mounted, pushes, countdownVars, idleFlowVars >>

\* the clock moves on, to the next due time at the latest
ToastClock ==
  \E t \in {now + (ToastMs \div 2)} \cup {x.due : x \in timeouts} :
    /\ t > now /\ t <= MaxNow
    /\ \A x \in timeouts : t <= x.due
    /\ now' = t
    /\ vstep' = ViewStep("ToastClock", FALSE, 0)
    /\ UNCHANGED << mounted, toast, toastVars, countdownVars, idleFlowVars >>

InitToast ==
  /\ page \in {"EventRegistrationPage"} \cup AdminPages
  /\ form = initialForm
  /\ joining = FALSE
  /\ authMode = "register"
  /\ login = initialLogin
  /\ joinNotice = ""
  /\ toast = NoToast
  /\ storage = [access_token |-> NoVal, refresh_token |-> NoVal]
  /\ inflight = << >>
  /\ jbLoading = FALSE
  /\ out = NoEffects
  /\ last = [op |-> "mount", res |-> NoResponse, tok |-> NoTokenResponse,
             pre |-> [joinNotice |-> "", authMode |-> "register",
                      storage |-> storage],
             st0 |-> storage]
  /\ IdleView

NextToast ==
  PushToast \/ Notify \/ ToastExpires \/ ToastClock \/ LoadEvent \/ Unmount
SpecToast == InitToast /\ [][NextToast]_vars

\* C17: after a page is unmounted none of its timers remains scheduled:
\* neither the countdown interval nor a toast's auto-dismiss timeout.
C17_NoTimerAfterUnmount ==
  ~mounted => (intervals = {} /\ timeouts = {})

\* C18: a displayed toast stays until its own auto-dismiss time: when it is
\* dismissed, the timer that fires is the one its push scheduled, and that
\* timer is due; the timer of an earlier toast never dismisses a later one.
C18_DismissedByOwnTimer ==
  [][ (toast # NoToast /\ toast' = NoToast)
       => \E t \in timeouts \ timeouts' : t.id = toastNo /\ now >= t.due ]_vars

-----------------------------------------------------------------------------
(* Registrations: the fetched rows, the client-side filter and the pages *)

ITEMS_PER_PAGE == 10
MaxPending == 2

\* text is a sequence of characters, so that case, trimming and substrings
\* are computed
UpperCase == << "A", "B", "C", "D", "E", "F", "G", "H", "I", "J", "K", "L", "M", "N", "O", "P", "Q", "R", "S", "T", "U", "V", "W", "X", "Y", "Z" >>
LowerCase == << "a", "b", "c", "d", "e", "f", "g", "h", "i", "j", "k", "l", "m", "n", "o", "p", "q", "r", "s", "t", "u", "v", "w", "x", "y", "z" >>

CaseMap ==
  [c \in {UpperCase[k] : k \in 1..Len(UpperCase)} |->
     LowerCase[CHOOSE k \in 1..Len(UpperCase) : UpperCase[k] = c]]

\* String.prototype.toLowerCase
toLowerCase(str) ==
  [i \in 1..Len(str) |->
     IF str[i] \in DOMAIN CaseMap THEN CaseMap[str[i]] ELSE str[i]]

\* String.prototype.trim
RECURSIVE trim(_)
trim(str) ==
  IF str = << >> THEN str
  ELSE IF Head(str) = " " THEN trim(Tail(str))
  ELSE IF str[Len(str)] = " " THEN trim(SubSeq(str, 1, Len(str) - 1))
  ELSE str

\* String.prototype.includes
includes(str, part) ==
  \E i \in 0..(Len(str) - Len(part)) : SubSeq(str, i + 1, i + Len(part)) = part

\* the rows the server can return: three kinds, told apart by id; the free
\* text of a registration can hold commas and double quotes, and the phone
\* can be missing
Row(i) ==
  CASE i % 3 = 0 ->
         [id |-> i, name |-> << "A", "n", "n", " ", "L", "e", "e" >>, email |-> << "a", "n", "n", "@", "x", ".", "o", "r", "g" >>, hospital |-> << "S", "t", ".", " ", "C", "a", "r", "d", "i", "o", " ", "C", "e", "n", "t", "e", "r" >>,
          eventTitle |-> << "H", "e", "a", "r", "t", " ", "D", "a", "y" >>, eventCode |-> << "H", "D", "1" >>, speciality |-> "Cardiology",
          mobile |-> << "+", "1", ",", "5" >>, timestamp |-> "2025-01-05T10:00:00Z"]
    [] i % 3 = 1 ->
         [id |-> i, name |-> << "B", "o", "b" >>, email |-> << "b", "o", "b", "@", "y", ".", "o", "r", "g" >>, hospital |-> << "C", "i", "t", "y", " ", "C", "l", "i", "n", "i", "c" >>,
          eventTitle |-> << "C", "A", "R", "D", "I", "O", " ", "U", "p", "d", "a", "t", "e" >>, eventCode |-> << "C", "U", "2" >>, speciality |-> "Neurology",
          mobile |-> << >>, timestamp |-> "2025-01-05T10:00:00Z"]
    [] OTHER ->
         [id |-> i, name |-> << "C", "y" >>, email |-> << "c", "y", "@", "z", ".", "o", "r", "g" >>, hospital |-> << "G", "e", "n", " ", "\"", "E", "\"", ",", "2" >>,
          eventTitle |-> << "N", "e", "u", "r", "o", " ", "D", "a", "y" >>, eventCode |-> << "N", "D", "3" >>, speciality |-> "cardiology",
          mobile |-> << "\"", "5", "\"", "\"" >>, timestamp |-> "2025-12-31T23:59:00Z"]

RowsFrom(a, n) == [i \in 1..n |-> Row(a + i - 1)]
\* eleven rows of one speciality
NeurologyList == [i \in 1..(ITEMS_PER_PAGE + 1) |-> Row(3 * i - 2)]
\* the lists a fetch can resolve with: empty, a short one, two of eleven mixed
\* rows and one of eleven rows that all pass the same filters
ServerLists ==
  {RowsFrom(a, n) : a \in {1, 2}, n \in {0, 3, 11}} \cup {NeurologyList}

SearchTerms ==
  {<< >>, << "c", "a", "r", "d", "i", "o" >>, << " ", "C", "a", "r", "d", "i", "o", " " >>, << "h", "d", "1" >>, << "z", "z" >>}
Specialties == {"All Specialties", "Cardiology", "Neurology"}
MeetingEvents == {"All Meetings", "ev-1"}
Dates == {"", "2025-01-01"}

\* mutant: the search term is lower-cased but not trimmed
filteredOf_untrimmed(rs, f) ==
  LET term == toLowerCase(f.searchTerm)
      matchSearch(r) ==
        \/ term = << >>
        \/ includes(toLowerCase(r.name), term)
        \/ includes(toLowerCase(r.email), term)
        \/ includes(toLowerCase(r.hospital), term)
        \/ includes(toLowerCase(r.eventTitle), term)
        \/ includes(toLowerCase(r.eventCode), term)
      matchSpec(r) ==
        f.specialty = "All Specialties" \/ r.speciality = f.specialty
      keep(r) == matchSearch(r) /\ matchSpec(r)
  IN SelectSeq(rs, keep)

\* the useMemo body of `filtered`
filteredOf(rs, f) ==
  LET term == toLowerCase(trim(f.searchTerm))
      matchSearch(r) ==
        \/ term = << >>
        \/ includes(toLowerCase(r.name), term)
        \/ includes(toLowerCase(r.email), term)
        \/ includes(toLowerCase(r.hospital), term)
        \/ includes(toLowerCase(r.eventTitle), term)
        \/ includes(toLowerCase(r.eventCode), term)
      matchSpec(r) ==
        f.specialty = "All Specialties" \/ r.speciality = f.specialty
      keep(r) == matchSearch(r) /\ matchSpec(r)
  IN SelectSeq(rs, keep)

filtered == filteredOf(rows, filters)
totalCount == Len(filtered)
\* Math.max(1, Math.ceil(totalCount / ITEMS_PER_PAGE))
totalPages ==
  LET c == (totalCount + ITEMS_PER_PAGE - 1) \div ITEMS_PER_PAGE
  IN IF c > 1 THEN c ELSE 1
pageStart == (currentPage - 1) * ITEMS_PER_PAGE
\* filtered.slice(pageStart, pageStart + ITEMS_PER_PAGE)
pageRows ==
  SubSeq(filtered, pageStart + 1,
         IF pageStart + ITEMS_PER_PAGE < totalCount
         THEN pageStart + ITEMS_PER_PAGE ELSE totalCount)

pageRest ==
  << page, form, joining, authMode, login, joinNotice, inflight, jbLoading,
     storage, out, last, now, mounted, countdownVars, vstep, fetchVars >>
tableRest == << pageRest, deleteVars, adminVars >>

\* fetchRegistrations up to its await
fetchRegistrations ==
  /\ pending < MaxPending
  /\ loading' = TRUE
  /\ pending' = pending + 1

\* the reset effect after a render with filters f2 and rows rs2: its
\* dependencies are the five filter fields and rows.length
ResetPage(f2, rs2) ==
  currentPage' = IF f2 # filters \/ Len(rs2) # Len(rows) THEN 1 ELSE currentPage

\* typing in the search box
SetSearchTerm ==
  \E term \in SearchTerms :
    /\ term # filters.searchTerm
    /\ filters' = [filters EXCEPT !.searchTerm = term]
    /\ ResetPage(filters', rows)
    /\ UNCHANGED << rows, loading, pending, toast, toastVars, tableRest >>

\* choosing a speciality
SetSpecialty ==
  \E sp \in Specialties :
    /\ sp # filters.specialty
    /\ filters' = [filters EXCEPT !.specialty = sp]
    /\ ResetPage(filters', rows)
    /\ UNCHANGED << rows, loading, pending, toast, toastVars, tableRest >>

\* changing a server-side filter: the refetch effect runs as well
SetServerFilter ==
  \E key \in {"dateFrom", "dateTo", "meetingEvent"} :
    \E val \in (IF key = "meetingEvent" THEN MeetingEvents ELSE Dates) :
      /\ val # filters[key]
      /\ filters' = [filters EXCEPT ![key] = val]
      /\ fetchRegistrations
      /\ ResetPage(filters', rows)
      /\ UNCHANGED << rows, toast, toastVars, tableRest >>

\* the Apply Filters button
ClickApply ==
  /\ fetchRegistrations
  /\ UNCHANGED << rows, filters, currentPage, toast, toastVars, tableRest >>

\* a list request resolves: setRows(mapped), then finally setLoading(false)
FetchSettled ==
  \E list \in ServerLists :
    /\ pending > delFetch
    /\ pending' = pending - 1
    /\ rows' = list
    /\ loading' = FALSE
    /\ ResetPage(filters, list)
    /\ UNCHANGED << filters, toast, toastVars, tableRest >>

\* a list request fails: an error toast, then finally setLoading(false)
FetchFailed ==
  /\ pending > delFetch
  /\ pushes < MaxPushes
  /\ pending' = pending - 1
  /\ loading' = FALSE
  /\ toastFn(pushToast("error", "Failed to fetch registrations"))
  /\ UNCHANGED << rows, filters, currentPage, tableRest >>

\* Previous, Next and the numbered page buttons; a disabled button does nothing
ClickPage ==
  /\ \/ /\ currentPage # 1
          /\ currentPage' = currentPage - 1
       \/ /\ currentPage # totalPages
          /\ currentPage' = IF currentPage + 1 < totalPages
                            THEN currentPage + 1 ELSE totalPages
       \/ \E i \in 0..4 :
            LET p == (IF currentPage > 3 THEN currentPage - 2 ELSE 1) + i
            IN /\ i < totalPages
               /\ p <= totalPages
               /\ currentPage' = p
  /\ UNCHANGED << rows, filters, loading, pending, toast, toastVars,
                  tableRest >>

\* the Clear Filters button; the refetch effect runs if a server-side filter
\* was set
clearFilters ==
  /\ filters' = initialFilters
  /\ currentPage' = 1
  /\ IF \/ filters.dateFrom # "" \/ filters.dateTo # ""
        \/ filters.meetingEvent # "All Meetings"
     THEN fetchRegistrations
     ELSE UNCHANGED << loading, pending >>
  /\ UNCHANGED << rows, toast, toastVars, tableRest >>

\* the delete button of a displayed row, confirmed: handleDelete up to its
\* first await
handleDelete ==
  /\ pageRows # << >>
  /\ deleting + pending < MaxPending
  /\ deleting' = deleting + 1
  /\ UNCHANGED << rows, filters, currentPage, loading, pending, delFetch,
                  toast, toastVars, pageRest, adminVars >>

\* the delete request resolves: handleDelete goes on to await fetchRegistrations()
DeleteSettled ==
  /\ deleting > 0
  /\ deleting' = deleting - 1
  /\ loading' = TRUE
  /\ pending' = pending + 1
  /\ delFetch' = delFetch + 1
  /\ UNCHANGED << rows, filters, currentPage, toast, toastVars, pageRest, adminVars >>

\* the delete request fails: handleDelete's catch
DeleteFailed ==
  /\ deleting > 0
  /\ pushes < MaxPushes
  /\ deleting' = deleting - 1
  /\ toastFn(pushToast("error", "Error deleting registration"))
  /\ UNCHANGED << rows, filters, currentPage, loading, pending, delFetch,
                  pageRest, adminVars >>

\* the list request of a handleDelete resolves: setRows, setLoading(false),
\* then handleDelete's toast("success", ...)
DeleteFetchSettled ==
  \E list \in ServerLists :
    /\ delFetch > 0
    /\ pushes < MaxPushes
    /\ pending' = pending - 1
    /\ delFetch' = delFetch - 1
    /\ rows' = list
    /\ loading' = FALSE
    /\ ResetPage(filters, list)
    /\ toastFn(pushToast("success", "Registration deleted"))
    /\ UNCHANGED << filters, deleting, pageRest, adminVars >>

\* the list request of a handleDelete fails: fetchRegistrations' catch and
\* finally, then handleDelete's toast("success", ...)
DeleteFetchFailed ==
  /\ delFetch > 0
  /\ pushes + 1 < MaxPushes
  /\ pending' = pending - 1
  /\ delFetch' = delFetch - 1
  /\ loading' = FALSE
  /\ pushes' = pushes + 2
  /\ timeouts' = timeouts \cup {[id |-> pushes + 1, due |-> now + NotificationMs],
                                [id |-> pushes + 2, due |-> now + NotificationMs]}
  /\ IF mounted
     THEN /\ toast' = pushToast("success", "Registration deleted")
          /\ toastNo' = pushes + 2
          /\ render' = render + 2
          /\ fnT' = fnT \o << 0, 0 >>
     ELSE UNCHANGED << toast, toastNo, render, fnT >>
  /\ UNCHANGED << rows, filters, currentPage, deleting, pageRest, adminVars >>

InitTable == InitToast /\ page = "Registrations"
NextTable ==
  \/ SetSearchTerm \/ SetSpecialty \/ SetServerFilter \/ ClickApply
  \/ FetchSettled \/ FetchFailed \/ ClickPage \/ clearFilters
SpecTable == InitTable /\ [][NextTable]_vars

\* what the claim's words select from a list of rows
MatchesTerm(r, term) ==
  \E field \in {r.name, r.email, r.hospital, r.eventTitle, r.eventCode} :
    LET lf == toLowerCase(field) IN
    \E i \in 1..(Len(lf) + 1) :
      /\ i + Len(term) - 1 <= Len(lf)
      /\ \A k \in 1..Len(term) : lf[i + k - 1] = term[k]
Kept(r, term) ==
  /\ term = << >> \/ MatchesTerm(r, term)
  /\ \/ filters.specialty = "All Specialties"
     \/ r.speciality = filters.specialty

\* C19: the filtered list is exactly the fetched rows, in server order, whose
\* name, email, hospital, event title or event code contains the trimmed
\* lower-cased search term case-insensitively (or the term is empty) and whose
\* speciality equals the speciality filter (or the filter is All Specialties).
C19_ClientSideFilter ==
  LET shown == filtered
      term == toLowerCase(trim(filters.searchTerm))
  IN /\ \A i \in 1..Len(rows) :
           Kept(rows[i], term) <=> \E j \in 1..Len(shown) : shown[j] = rows[i]
     /\ \A j \in 1..Len(shown) : \E i \in 1..Len(rows) : shown[j] = rows[i]
     /\ \A j1, j2 \in 1..Len(shown) :
           j1 < j2 => shown[j1].id < shown[j2].id

C19_Witness ==
  /\ filters.searchTerm = << " ", "C", "a", "r", "d", "i", "o", " " >>
  /\ filters.specialty = "Cardiology"
  /\ Len(rows) = 11
  /\ LET shown == filtered
     IN /\ Len(shown) \in {3, 4}
        /\ \A j \in 1..Len(shown) : shown[j].hospital = Row(3).hospital

\* C20: whenever the search term, the speciality, meeting, date-from or
\* date-to filter, or the fetched row list changes, the current page is 1
\* once the step's effects have run.
C20_PageResetOnAnyChange ==
  [][ (filters' # filters \/ rows' # rows) => currentPage' = 1 ]_vars

-----------------------------------------------------------------------------
(* Repeated and finished attempts *)

\* C23 as stated: a Join click made with both consents given while a register
\* request of the page is in flight issues a second register request.
C23_SecondClickIssuesRequest ==
  [][ (/\ last'.op = "ClickJoin"
       /\ canLegallyProceed
       /\ \E i \in 1..Len(inflight) : inflight[i].call = "registerAndJoin")
      => out'.requests # << >> ]_vars

\* C23 amended: while a register request is in flight the Join button is
\* disabled, so a second click issues no request and at most one register
\* request of the page is in flight at any time.
C23_SecondClickBlocked ==
  [][ /\ (/\ last'.op = "ClickJoin"
           /\ \E i \in 1..Len(inflight) : inflight[i].call = "registerAndJoin")
          => (out'.requests = << >> /\ inflight' = inflight)
      /\ Cardinality({i \in 1..Len(inflight') :
                        inflight'[i].call = "registerAndJoin"}) <= 1 ]_vars

C23_Witness ==
  /\ last.op = "ClickJoin"
  /\ canLegallyProceed
  /\ joining
  /\ Len(inflight) = 1 /\ inflight[1].call = "registerAndJoin"
  /\ out.requests = << >>

\* both pages with the form filled in and both consents given
InitBusy ==
  /\ page \in {"EventRegistrationPage", "EventPage"}
  /\ form = [email |-> "a@x.org", accept_policy |-> TRUE,
             accept_recording |-> TRUE]
  /\ joining = FALSE
  /\ authMode = "register"
  /\ login = [initialLogin EXCEPT !.userOrEmail = "bob"]
  /\ joinNotice = ""
  /\ toast = NoToast
  /\ storage = [access_token |-> NoVal, refresh_token |-> NoVal]
  /\ inflight = << >>
  /\ jbLoading = FALSE
  /\ out = NoEffects
  /\ last = [op |-> "handleFormChange", res |-> NoResponse,
             tok |-> NoTokenResponse,
             pre |-> [joinNotice |-> "", authMode |-> "register",
                      storage |-> storage],
             st0 |-> storage]
  /\ IdleView

\* login mode is entered the way the page enters it by itself, on an
\* account-exists answer
NextBusy ==
  \/ ClickJoin \/ RegisterSettled
  \/ SubmitLogin \/ TokenSettled \/ JoinAuthSettled
  \/ ClickJoinButton \/ OpenSettled
SpecBusy == InitBusy /\ [][NextBusy]_vars

Calls == {inflight[i].call : i \in 1..Len(inflight)}

\* C28: a busy flag is set only while a request of its attempt is outstanding:
\* once the register call, the login attempt's calls or the JoinButton's open
\* call have settled, joining, login.loading and the JoinButton's loading are
\* false again, on every outcome branch.
C28_BusyFlagsReleased ==
  /\ joining => "registerAndJoin" \in Calls
  /\ login.loading => (Calls \cap {"login", "joinAuth"}) # {}
  /\ jbLoading => "openEvent" \in Calls
  /\ last.op = "RegisterSettled" => ~joining
  /\ (last.op = "JoinAuthSettled" \/ (last.op = "TokenSettled" /\ ~last.tok.ok))
       => ~login.loading
  /\ last.op = "OpenSettled" => ~jbLoading

C28_Witness ==
  /\ last.op = "JoinAuthSettled"
  /\ ~OkWithLink
  /\ ResStatus = 500
  /\ ~login.loading
  /\ ~joining
  /\ inflight = << >>

-----------------------------------------------------------------------------
(* The countdown block over time *)

\* {!canJoinWindow && (<div className="event-countdown">...)}: the block is
\* rendered from the memoized value
countdownShown == ~canJoinWindow

\* C24: at any moment after the event has loaded the countdown block is shown
\* iff the current time is outside [window_opens_at, end_at]; once the clock has
\* reached window_opens_at the render that follows (a tick of the countdown)
\* hides the block without reloading the event.
C24_VisibilityFollowsClock ==
  (mounted /\ event # NoEvent /\ vstep.op = "Tick" /\ vstep.ticked)
    => (countdownShown <=> ~canJoin(event, now))

-----------------------------------------------------------------------------
(* The page number *)

\* the table under speciality edits, refetches, deletions and page clicks
NextPaging ==
  \/ SetSpecialty \/ ClickApply \/ FetchSettled \/ ClickPage
  \/ handleDelete \/ DeleteSettled \/ DeleteFailed
  \/ DeleteFetchSettled \/ DeleteFetchFailed
SpecPaging == InitTable /\ [][NextPaging]_vars

\* C26: after any filter edits, refetches (also ones returning the same number
\* of rows), deletions and page clicks, with the effects of the step run,
\* 1 <= currentPage <= totalPages.
C26_PageInRange ==
  LET shown == filteredOf(rows, filters)
      pages == (Len(shown) + ITEMS_PER_PAGE - 1) \div ITEMS_PER_PAGE
  IN /\ 1 <= currentPage
     /\ currentPage <= (IF pages > 1 THEN pages ELSE 1)

-----------------------------------------------------------------------------
(* Event requests and a changing route code *)

MaxFetches == 3
Codes == {"E1", "E2", "E3"}
\* err?.response?.data?.detail || "Event not found."
FetchErrors == {"Event not found.", "No Event matches the given query."}

EventOf(c) == CHOOSE ev \in Events : ev.code = c

InitFetch ==
  /\ InitFlow
  /\ storage = [access_token |-> NoVal, refresh_token |-> NoVal]
  /\ IdleView

\* the first render's fetch effect, or the effect re-run for a new code: the
\* previous run's cleanup, then setLoading(true) on EventPage and the request
RunFetchEffect(c) ==
  /\ fetchNo < MaxFetches
  /\ code' = c
  /\ fetchNo' = fetchNo + 1
  /\ fetches' = FetchCleanup \cup {[id |-> fetchNo + 1, code |-> c, on |-> TRUE]}
  /\ evLoading' = IF page = "EventPage" THEN TRUE ELSE evLoading
  /\ latest' = NoLatest

\* the page's first effects run
MountFetch ==
  /\ mounted
  /\ page \in EventPages
  /\ fetchNo = 0
  /\ RunFetchEffect(code)
  /\ vstep' = ViewStep("MountFetch", FALSE, 0)
  /\ UNCHANGED << now, mounted, error, countdownVars, toast, toastVars,
                  flowVars >>

\* the route's :code changes under the mounted page
ChangeCode ==
  \E c \in Codes \ {code} :
    /\ mounted
    /\ page \in EventPages
    /\ fetchNo > 0
    /\ RunFetchEffect(c)
    /\ vstep' = ViewStep("ChangeCode", FALSE, 0)
    /\ UNCHANGED << now, mounted, error, countdownVars, toast, toastVars,
                    flowVars >>

\* whether the settled request's callbacks look at `on` and find it false
Skips(f) == page = "EventPage" /\ ~f.on

\* finally: on && setLoading(false); setLoading(false) on EventRegistrationPage
FetchFinally(f) ==
  evLoading' = IF Skips(f) \/ ~mounted THEN evLoading ELSE FALSE

\* an event request resolves
EventFetched ==
  \E f \in fetches :
    LET ev == EventOf(f.code) IN
    /\ fetches' = fetches \ {f}
    /\ IF Skips(f) \/ ~mounted
       THEN UNCHANGED << event, error, countdownVars >>
       ELSE /\ event' = ev
            /\ error' = NoVal
            /\ canJoinWindow' = canJoin(ev, now)
            /\ RunCountdownEffect(ev)
    /\ FetchFinally(f)
    /\ latest' = IF f.id = fetchNo
                 THEN [done |-> TRUE, event |-> ev, error |-> NoVal]
                 ELSE latest
    /\ vstep' = [ViewStep("EventFetched", FALSE, 0) EXCEPT !.target = f.id]
    /\ UNCHANGED << now, mounted, code, fetchNo, toast, toastVars,
                    flowVars >>

\* an event request fails: neither page's catch looks at `on`
EventFetchFailed ==
  \E f \in fetches : \E msg \in FetchErrors :
    /\ fetches' = fetches \ {f}
    /\ IF ~mounted
       THEN UNCHANGED << event, error, countdownVars >>
       ELSE /\ event' = NoEvent
            /\ error' = msg
            /\ canJoinWindow' = canJoin(NoEvent, now)
            /\ RunCountdownEffect(NoEvent)
    /\ FetchFinally(f)
    /\ latest' = IF f.id = fetchNo
                 THEN [done |-> TRUE, event |-> NoEvent, error |-> msg]
                 ELSE latest
    /\ vstep' = [ViewStep("EventFetchFailed", FALSE, 0) EXCEPT !.target = f.id]
    /\ UNCHANGED << now, mounted, code, fetchNo, toast, toastVars,
                    flowVars >>

NextFetch == MountFetch \/ ChangeCode \/ EventFetched \/ EventFetchFailed \/ Unmount
SpecFetch == InitFetch /\ [][NextFetch]_vars

\* C27: the late response of a superseded event fetch, success or failure,
\* never changes event, error or loading; once all fetches have settled the
\* page shows the answer to the request for the latest code.
C27_SupersededIgnored ==
  [][ /\ (vstep'.op \in {"EventFetched", "EventFetchFailed"}
           /\ vstep'.target # fetchNo)
        => UNCHANGED << event, error, evLoading >>
      /\ (mounted' /\ fetchNo' > 0 /\ fetches' = {})
        => /\ event' = latest'.event
           /\ error' = latest'.error
           /\ ~evLoading' ]_vars

-----------------------------------------------------------------------------
(* CSV export of the registrations *)

Header ==
  << << "N", "a", "m", "e" >>, << "E", "m", "a", "i", "l" >>,
     << "M", "o", "b", "i", "l", "e" >>,
     << "H", "o", "s", "p", "i", "t", "a", "l" >>,
     << "S", "p", "e", "c", "i", "a", "l", "i", "t", "y" >>,
     << "E", "v", "e", "n", "t" >>,
     << "E", "v", "e", "n", "t", " ", "C", "o", "d", "e" >>,
     << "R", "e", "g", "i", "s", "t", "e", "r", "e", "d", " ", "A", "t" >> >>

\* the speciality names as text
SpecialityText ==
  [Cardiology |-> << "C", "a", "r", "d", "i", "o", "l", "o", "g", "y" >>,
   Neurology |-> << "N", "e", "u", "r", "o", "l", "o", "g", "y" >>,
   cardiology |-> << "c", "a", "r", "d", "i", "o", "l", "o", "g", "y" >>]

\* new Date(timestamp).toLocaleString("en-US", {year, month, day, hour, minute})
\* in the browser's time zone, here UTC
formatTimestamp(timestamp) ==
  IF timestamp = "2025-01-05T10:00:00Z"
  THEN << "0", "1", "/", "0", "5", "/", "2", "0", "2", "5", ",", " ",
          "1", "0", ":", "0", "0", " ", "A", "M" >>
  ELSE << "1", "2", "/", "3", "1", "/", "2", "0", "2", "5", ",", " ",
          "1", "1", ":", "5", "9", " ", "P", "M" >>

\* mutant: embedded double quotes are left as they are
Doubled_none(v) == v

\* .replace(/"/g, '""')
RECURSIVE Doubled(_)
Doubled(v) ==
  IF v = << >> THEN << >>
  ELSE (IF Head(v) = "\"" THEN << "\"", "\"" >> ELSE << Head(v) >>)
         \o Doubled(Tail(v))

\* `"${(v || "").toString().replace(/"/g, '""')}"`
CsvCell(v) == << "\"" >> \o Doubled(v) \o << "\"" >>

\* Array.prototype.join
RECURSIVE join(_, _)
join(parts, sep) ==
  IF parts = << >> THEN << >>
  ELSE IF Len(parts) = 1 THEN parts[1]
  ELSE parts[1] \o sep \o join(Tail(parts), sep)

\* the eight values handleExportData takes from a row
RowValues(r) ==
  << r.name, r.email, r.mobile, r.hospital, SpecialityText[r.speciality],
     r.eventTitle, r.eventCode, formatTimestamp(r.timestamp) >>

CsvLine(r) ==
  LET vs == RowValues(r)
  IN join([k \in 1..Len(vs) |-> CsvCell(vs[k])], << "," >>)

\* mutant: the rows of the displayed page are exported
ExportedRows_currentPage == pageRows

\* filtered.map(...)
ExportedRows == filtered

\* [header.join(","), ...lines].join("\n")
ExportCsv(rs) ==
  join(<< join(Header, << "," >>) >> \o [k \in 1..Len(rs) |-> CsvLine(rs[k])],
       << "\n" >>)

\* the Export button: handleExportData
handleExportData ==
  /\ pushes < MaxPushes
  /\ csv' = ExportCsv(ExportedRows)
  /\ toastFn(pushToast("success", "Exported CSV"))
  /\ UNCHANGED << rows, filters, currentPage, loading, pending, deleteVars,
                  analytics, statusFilter, meetingVars, pageRest >>

NextExport ==
  \/ SetSearchTerm \/ SetSpecialty \/ ClickApply \/ FetchSettled \/ ClickPage
  \/ handleExportData
SpecExport == InitTable /\ [][NextExport]_vars

\* reading CSV text by the standard rules (RFC 4180): a field that starts with
\* a double quote runs to the closing quote, a doubled quote inside it stands
\* for one quote; other fields run to the next comma or line break

\* the rest of a quoted field from position j on: its value and the position
\* after it
RECURSIVE Quoted(_, _, _)
Quoted(text, j, acc) ==
  IF j > Len(text) THEN [val |-> acc, next |-> j]
  ELSE IF text[j] = "\""
       THEN IF j < Len(text) /\ text[j + 1] = "\""
            THEN Quoted(text, j + 2, Append(acc, "\""))
            ELSE [val |-> acc, next |-> j + 1]
       ELSE Quoted(text, j + 1, Append(acc, text[j]))

RECURSIVE Unquoted(_, _, _)
Unquoted(text, j, acc) ==
  IF j > Len(text) \/ text[j] \in {",", "\n"} THEN [val |-> acc, next |-> j]
  ELSE Unquoted(text, j + 1, Append(acc, text[j]))

ParseField(text, i) ==
  IF i <= Len(text) /\ text[i] = "\""
  THEN LET q == Quoted(text, i + 1, << >>) IN Unquoted(text, q.next, q.val)
  ELSE Unquoted(text, i, << >>)

\* one record from position i on: its fields and the position after its line break
RECURSIVE ParseRecord(_, _, _)
ParseRecord(text, i, acc) ==
  LET f == ParseField(text, i)
      fields == Append(acc, f.val)
  IN IF f.next <= Len(text) /\ text[f.next] = ","
     THEN ParseRecord(text, f.next + 1, fields)
     ELSE [fields |-> fields, next |-> f.next + 1]

RECURSIVE ParseFrom(_, _, _)
ParseFrom(text, i, acc) ==
  IF i > Len(text) THEN acc
  ELSE LET r == ParseRecord(text, i, << >>)
       IN ParseFrom(text, r.next, Append(acc, r.fields))

ParseCsv(text) == ParseFrom(text, 1, << >>)

\* the step is an export
Exporting == pushes' = pushes + 1 /\ toast'.message = "Exported CSV"

\* C21: every data cell of the registrations export is wrapped in double
\* quotes with each embedded double quote doubled, and reading the data lines
\* of the export by the standard CSV rules returns, for every row and column,
\* the original field string, commas and double quotes included.
C21_CellsRoundTrip ==
  [][ Exporting =>
        LET shown == filteredOf(rows, filters)
            read == ParseCsv(csv')
            lines == [k \in 1..Len(shown) |-> CsvLine(shown[k])]
        IN /\ Tail(read) = [k \in 1..Len(shown) |-> RowValues(shown[k])]
           /\ \A k \in 1..Len(shown) :
                /\ \A c \in 1..Len(Header) :
                     LET v == RowValues(shown[k])[c]
                         cell == CsvCell(v)
                     IN /\ Head(cell) = "\"" /\ cell[Len(cell)] = "\""
                        /\ Len(cell) = Len(v) + 2
                             + Cardinality({x \in 1..Len(v) : v[x] = "\""})
                        /\ \A x \in 2..(Len(cell) - 1) :
                             cell[x] = "\""
                               => (cell[x - 1] = "\"" \/ cell[x + 1] = "\"")
           /\ csv' = join(<< join(Header, << "," >>) >> \o lines, << "\n" >>) ]_vars

C21_Witness ==
  LET shown == filteredOf(rows, filters)
  IN /\ toast.message = "Exported CSV"
     /\ csv # << >>
     /\ Len(shown) >= 2
     /\ \E k \in 1..Len(shown) : \E x \in 1..Len(shown[k].hospital) :
          shown[k].hospital[x] = "\""
     /\ Tail(ParseCsv(csv)) = [k \in 1..Len(shown) |-> RowValues(shown[k])]

\* C22: the export holds one header line and then exactly one data line (CSV
\* record) per row of the filtered list, in filtered order, each with the eight
\* columns Name, Email, Mobile, Hospital, Speciality, Event, Event Code,
\* Registered At in that order, whatever the current page is; the text is
\* determined by the filtered rows alone.
C22_ExportCoversFiltered ==
  [][ Exporting =>
        LET shown == filteredOf(rows, filters)
            read == ParseCsv(csv')
        IN /\ read = << Header >> \o
                     [k \in 1..Len(shown) |->
                        << shown[k].name, shown[k].email, shown[k].mobile,
                           shown[k].hospital,
                           SpecialityText[shown[k].speciality],
                           shown[k].eventTitle, shown[k].eventCode,
                           formatTimestamp(shown[k].timestamp) >>]
           /\ csv' = ExportCsv(shown) ]_vars

C22_Witness ==
  /\ toast.message = "Exported CSV"
  /\ currentPage = 2
  /\ filters.specialty = "Neurology"
  /\ Len(filteredOf(rows, filters)) = ITEMS_PER_PAGE + 1
  /\ Len(ParseCsv(csv)) = ITEMS_PER_PAGE + 2

-----------------------------------------------------------------------------
(* CSV export of the analytics log *)

NA == << "N", "/", "A" >>
SUCCESS == << "S", "U", "C", "C", "E", "S", "S" >>
REFUSED == << "R", "E", "F", "U", "S", "E", "D" >>

\* entries of recent_logs: user and ip can be null, the message is free text
Logs ==
  {[status |-> SUCCESS, user |-> << "7" >>, message |-> << "o", "k" >>,
    ip |-> << "1", "0", ".", "0", ".", "0", ".", "1" >>],
   [status |-> REFUSED, user |-> << >>, message |-> << "l", "a", "t", "e", ",", " ", "n", "o" >>,
    ip |-> << >>],
   [status |-> REFUSED, user |-> << "7" >>,
    message |-> << "b", "a", "d", " ", "\"", "c", "o", "d", "e", "\"" >>,
    ip |-> << "1", "0", ".", "0", ".", "0", ".", "1" >>],
   [status |-> SUCCESS, user |-> << "8" >>, message |-> << >>,
    ip |-> << "1", "0", ".", "0", ".", "0", ".", "2" >>]}

LogLists == {<< >>} \cup {<< l >> : l \in Logs} \cup {<< l, m >> : l, m \in Logs}

\* new Date(log.occurred_at).toLocaleString(): every entry of the model
\* occurred at the same minute
LogTime ==
  << "1", "/", "5", "/", "2", "0", "2", "5", ",", " ", "1", "0", ":", "0", "0",
     ":", "0", "0", " ", "A", "M" >>

LogHeader ==
  << "T", "i", "m", "e", "s", "t", "a", "m", "p", ",", "S", "t", "a", "t", "u",
     "s", ",", "U", "s", "e", "r", " ", "I", "D", ",", "M", "e", "s", "s", "a",
     "g", "e", ",", "I", "P", " ", "A", "d", "d", "r", "e", "s", "s" >>

\* v || "N/A"
OrNA(v) == IF v = << >> THEN NA ELSE v

\* the values exportData writes for an entry
LogValues(l) ==
  << LogTime, l.status, OrNA(l.user), OrNA(l.message), OrNA(l.ip) >>

\* the template literal of exportData: quotes around each value, nothing
\* done to the value itself
LogLine(l) ==
  LET vs == LogValues(l)
  IN join([k \in 1..Len(vs) |-> << "\"" >> \o vs[k] \o << "\"" >>], << "," >>)

\* the useMemo body of filteredLogs
filteredLogs ==
  IF ~analytics.loaded THEN << >>
  ELSE IF statusFilter = << >> THEN analytics.recent_logs
  ELSE LET keep(l) == l.status = statusFilter
       IN SelectSeq(analytics.recent_logs, keep)

logRest == << tableVars, pageRest, toast, toastVars, meetingVars >>

\* the analytics request resolves: setData(res.data)
AnalyticsLoaded ==
  \E logs \in LogLists :
    /\ page = "AdminEventAnalytics"
    /\ analytics' = [loaded |-> TRUE, recent_logs |-> logs]
    /\ UNCHANGED << csv, statusFilter, logRest >>

\* the status filter of the log table
setStatusFilter ==
  \E st \in {<< >>, SUCCESS, REFUSED} :
    /\ page = "AdminEventAnalytics"
    /\ st # statusFilter
    /\ statusFilter' = st
    /\ UNCHANGED << csv, analytics, logRest >>

\* the Export button of the analytics page
exportData ==
  /\ page = "AdminEventAnalytics"
  /\ analytics.loaded
  /\ csv' = join(<< LogHeader >> \o
                 [k \in 1..Len(filteredLogs) |-> LogLine(filteredLogs[k])],
                 << "\n" >>)
  /\ UNCHANGED << analytics, statusFilter, logRest >>

InitLogs ==
  /\ page = "AdminEventAnalytics"
  /\ form = initialForm
  /\ joining = FALSE
  /\ authMode = "register"
  /\ login = initialLogin
  /\ joinNotice = ""
  /\ toast = NoToast
  /\ storage = [access_token |-> "A_reg", refresh_token |-> NoVal]
  /\ inflight = << >>
  /\ jbLoading = FALSE
  /\ out = NoEffects
  /\ last = [op |-> "mount", res |-> NoResponse, tok |-> NoTokenResponse,
             pre |-> [joinNotice |-> "", authMode |-> "register",
                      storage |-> storage],
             st0 |-> storage]
  /\ IdleView

NextLogs == AnalyticsLoaded \/ setStatusFilter \/ exportData
SpecLogs == InitLogs /\ [][NextLogs]_vars

\* C25: every exported log line quotes its cells so that reading the export by
\* the CSV rules returns the status, user, message and IP values that were
\* written, also for a message that contains a double quote, which appears
\* doubled in the output.
C25_LogExportRoundTrips ==
  [][ csv' # csv =>
        LET shown == filteredLogs
        IN Tail(ParseCsv(csv')) = [k \in 1..Len(shown) |-> LogValues(shown[k])]
     ]_vars

-----------------------------------------------------------------------------
(* The admin routes *)

LoginPath == "/admin/login"
ProtectedPaths ==
  {"/admin/dashboard", "/admin/meetings", "/admin/registrations",
   "/admin/export", "/admin/analytics"}
AdminPaths == ProtectedPaths \cup {LoginPath, "/", "/admin"}

\* the element of each route
PageOf(path) ==
  CASE path = "/admin/dashboard" -> "Dashboard"
    [] path = "/admin/meetings" -> "MeetingManagement"
    [] path = "/admin/registrations" -> "Registrations"
    [] path = "/admin/export" -> "DataExport"
    [] path = "/admin/analytics" -> "AdminEventAnalytics"
    [] OTHER -> "AdminLogin"

\* mutant: the guard lets every visitor in
RequireAuth_open(path, st) == path

\* RequireAuth: token ? children : <Navigate to="/admin/login" replace />
RequireAuth(path, st) ==
  IF Truthy(st.access_token) THEN path ELSE LoginPath

\* the route that ends up rendered for a location, with localStorage st
Rendered(path, st) ==
  CASE path \in ProtectedPaths -> RequireAuth(path, st)
    [] path = "/admin" -> RequireAuth("/admin/dashboard", st)
    [] OTHER -> LoginPath

\* the location changes: the old page unmounts and the new one mounts with its
\* initial state (Registrations starts its first list request)
MountAdmin(pg) ==
  IF pg = page
  THEN UNCHANGED << page, login, tableVars, analytics, statusFilter >>
  ELSE /\ page' = pg
       /\ login' = initialLogin
       /\ rows' = << >>
       /\ filters' = initialFilters
       /\ currentPage' = 1
       /\ loading' = TRUE
       /\ pending' = IF pg = "Registrations" THEN 1 ELSE 0
       /\ deleting' = 0
       /\ delFetch' = 0
       /\ analytics' = NoData
       /\ statusFilter' = << >>

routeRest ==
  << form, joining, authMode, joinNotice, toast, jbLoading, now, mounted,
     countdownVars, vstep, toastVars, fetchVars, csv, meetingVars >>

Went(path) == [NoEffects EXCEPT !.navigated = << path >>]

\* a link or the address bar takes the browser to an admin location
GoTo ==
  \E path \in AdminPaths :
    /\ MountAdmin(PageOf(Rendered(path, storage)))
    /\ out' = Went(path)
    /\ last' = Step("GoTo", NoResponse, NoTokenResponse, storage)
    /\ UNCHANGED << storage, inflight, routeRest >>

\* Dashboard's logout button
handleLogout ==
  /\ page = "Dashboard"
  /\ storage' = [access_token |-> NoVal, refresh_token |-> NoVal]
  /\ MountAdmin(PageOf(Rendered(LoginPath, storage')))
  /\ out' = Went(LoginPath)
  /\ last' = Step("handleLogout", NoResponse, NoTokenResponse, storage)
  /\ UNCHANGED << inflight, routeRest >>

\* typing into AdminLogin's login field (or the register form's fields)
setLoginId ==
  \E u \in UserNames :
    /\ page = "AdminLogin"
    /\ u # login.userOrEmail
    /\ login' = [login EXCEPT !.userOrEmail = u]
    /\ out' = NoEffects
    /\ last' = Step("setLoginId", NoResponse, NoTokenResponse, storage)
    /\ UNCHANGED << page, storage, inflight, tableVars, analytics,
                    statusFilter, routeRest >>

MaxAdminCalls == 1

\* AdminLogin's handleLogin / handleRegister up to the await; the submit
\* button is disabled while loading
SubmitAdmin ==
  \E call \in {"adminLogin", "adminRegister"} :
    /\ page = "AdminLogin"
    /\ ~login.loading
    /\ Len(inflight) < MaxAdminCalls
    /\ IF login.userOrEmail = ""
       THEN /\ login' = [login EXCEPT !.err = "Please enter your credentials."]
            /\ UNCHANGED inflight
       ELSE /\ login' = [login EXCEPT !.err = "", !.loading = TRUE]
            /\ inflight' = Append(inflight, [call |-> call])
    /\ out' = NoEffects
    /\ last' = Step("SubmitAdmin", NoResponse, NoTokenResponse, storage)
    /\ UNCHANGED << page, storage, tableVars, analytics, statusFilter,
                    routeRest >>

\* what a login or register response can carry
AdminTokens == TokenPairs \cup {[access |-> NoVal, refresh |-> "R_reg"]}

\* the request of handleLogin / handleRegister settles
AdminSettled ==
  \E i \in 1..Len(inflight) : \E ok \in BOOLEAN : \E tokens \in AdminTokens :
    LET call == inflight[i].call
        stores == /\ ok
                  /\ \/ call = "adminLogin"
                     \/ Truthy(tokens.access) \/ Truthy(tokens.refresh)
        st2 == IF stores THEN StoreTokens(storage, tokens) ELSE storage
        busy == [login EXCEPT !.loading = FALSE,
                              !.err = IF ok THEN login.err ELSE "Login failed."]
    IN /\ call \in {"adminLogin", "adminRegister"}
       /\ ~ok => tokens = NoTokens
       /\ inflight' = RemoveAt(inflight, i)
       /\ storage' = st2
       /\ IF stores
          THEN /\ IF PageOf(Rendered("/admin/dashboard", st2)) = page
                  THEN /\ login' = IF page = "AdminLogin" THEN busy ELSE login
                       /\ UNCHANGED << page, tableVars, analytics, statusFilter >>
                  ELSE MountAdmin(PageOf(Rendered("/admin/dashboard", st2)))
               /\ out' = Went("/admin/dashboard")
          ELSE /\ login' = IF page = "AdminLogin" THEN busy ELSE login
               /\ out' = NoEffects
               /\ UNCHANGED << page, tableVars, analytics, statusFilter >>
       /\ last' = Step("AdminSettled", NoResponse, NoTokenResponse, storage)
       /\ UNCHANGED routeRest

InitRoutes ==
  /\ page = "AdminLogin"
  /\ form = initialForm
  /\ joining = FALSE
  /\ authMode = "register"
  /\ login = initialLogin
  /\ joinNotice = ""
  /\ toast = NoToast
  /\ storage \in InitStorage
  /\ inflight = << >>
  /\ jbLoading = FALSE
  /\ out = NoEffects
  /\ last = [op |-> "mount", res |-> NoResponse, tok |-> NoTokenResponse,
             pre |-> [joinNotice |-> "", authMode |-> "register",
                      storage |-> storage],
             st0 |-> storage]
  /\ IdleView

NextRoutes == GoTo \/ handleLogout \/ setLoginId \/ SubmitAdmin \/ AdminSettled
SpecRoutes == InitRoutes /\ [][NextRoutes]_vars

AdminPagesGuarded ==
  {"Dashboard", "MeetingManagement", "Registrations", "DataExport",
   "AdminEventAnalytics"}

\* C29: a protected admin route renders its page only if an access_token is
\* in localStorage when it renders, and otherwise the login page is rendered;
\* a Dashboard logout leaves neither token in storage and ends on the login
\* page, and while no access_token is stored every protected location ends
\* on the login page.
C29_RouteGuard ==
  [][ /\ (out'.navigated # << >> /\ out'.navigated[1] \in ProtectedPaths)
        => page' = IF Truthy(storage'.access_token)
                   THEN PageOf(out'.navigated[1]) ELSE "AdminLogin"
      /\ (page' \in AdminPagesGuarded /\ page' # page)
        => Truthy(storage'.access_token)
      /\ last'.op = "handleLogout"
        => /\ storage'.access_token = NoVal
           /\ storage'.refresh_token = NoVal
           /\ page' = "AdminLogin"
      /\ (~Truthy(storage.access_token) /\ page' \in AdminPagesGuarded
           /\ page' # page)
        => last'.op = "AdminSettled" ]_vars

C29_Witness ==
  /\ last.op = "GoTo"
  /\ out.navigated = << "/admin/registrations" >>
  /\ page = "AdminLogin"
  /\ storage.access_token = NoVal
  /\ storage.refresh_token = NoVal

-----------------------------------------------------------------------------
(* Saving a meeting *)

MaxExperts == 2
EventCodes == {<< >>, << " " >>, << "E", "V", "1" >>}
ExpertNames == {<< >>, << " " >>, << "A", "n", "n" >>}

meetRest ==
  << page, form, joining, authMode, login, joinNotice, inflight, jbLoading,
     storage, out, now, mounted, countdownVars, vstep, fetchVars, tableVars,
     csv, analytics, statusFilter >>

MeetingStep(op) == Step(op, NoResponse, NoTokenResponse, storage)

\* the Create New Meeting buttons: resetForm(); setShowCreateModal(true)
OpenCreate ==
  /\ page = "MeetingManagement"
  /\ ~meeting.open
  /\ meeting' = [meeting EXCEPT !.open = TRUE, !.form = blankMeetingForm]
  /\ last' = MeetingStep("OpenCreate")
  /\ UNCHANGED << save, sent, toast, toastVars, meetRest >>

\* the edit button of a listed meeting: the form is filled from the event
handleEditEvent ==
  \E xs \in {<< >>, << << "A", "n", "n" >> >>} : \E d \in BOOLEAN :
    /\ page = "MeetingManagement"
    /\ ~meeting.open
    /\ meeting.events # "none"
    /\ meeting' = [meeting EXCEPT
                     !.open = TRUE, !.editing = TRUE,
                     !.form = [code |-> << "E", "V", "1" >>, dates |-> d,
                               banner |-> FALSE, experts |-> xs]]
    /\ last' = MeetingStep("handleEditEvent")
    /\ UNCHANGED << save, sent, toast, toastVars, meetRest >>

\* typing into the form, choosing a banner, adding, naming and removing expert
\* rows; the code field is disabled while editing
EditMeetingForm ==
  /\ page = "MeetingManagement"
  /\ meeting.open
  /\ ~meeting.submitting
  /\ \/ \E c \in EventCodes :
          /\ ~meeting.editing
          /\ c # meeting.form.code
          /\ meeting' = [meeting EXCEPT !.form.code = c]
     \/ meeting' = [meeting EXCEPT !.form.dates = ~meeting.form.dates]
     \/ /\ ~meeting.form.banner
        /\ meeting' = [meeting EXCEPT !.form.banner = TRUE]
     \/ /\ Len(meeting.form.experts) < MaxExperts
        /\ meeting' = [meeting EXCEPT
                         !.form.experts = Append(meeting.form.experts, << >>)]
     \/ \E i \in 1..Len(meeting.form.experts) : \E n \in ExpertNames :
          /\ n # meeting.form.experts[i]
          /\ meeting' = [meeting EXCEPT !.form.experts[i] = n]
     \/ \E i \in 1..Len(meeting.form.experts) :
          meeting' = [meeting EXCEPT
                        !.form.experts = RemoveAt(meeting.form.experts, i)]
  /\ last' = MeetingStep("EditMeetingForm")
  /\ UNCHANGED << save, sent, toast, toastVars, meetRest >>

\* Cancel and the X of the modal
closeModal ==
  /\ page = "MeetingManagement"
  /\ meeting.open
  /\ meeting' = [meeting EXCEPT !.open = FALSE, !.editing = FALSE,
                                !.form = blankMeetingForm]
  /\ last' = MeetingStep("closeModal")
  /\ UNCHANGED << save, sent, toast, toastVars, meetRest >>

\* the mount effect's fetchEvents settles
EventsListed ==
  \E ok \in BOOLEAN :
    /\ page = "MeetingManagement"
    /\ meeting.loading /\ save.step = "idle" /\ meeting.events = "none"
    /\ IF ok
       THEN /\ meeting' = [meeting EXCEPT !.loading = FALSE, !.events = "listed"]
            /\ UNCHANGED << toast, toastVars >>
       ELSE /\ pushes < MaxPushes
            /\ meeting' = [meeting EXCEPT !.loading = FALSE, !.events = "failed"]
            /\ toastFn(pushToast("error", "Failed to fetch meetings"))
    /\ last' = MeetingStep("EventsListed")
    /\ UNCHANGED << save, sent, meetRest >>

\* mutant: rows with a blank name are not skipped
NextExpert_any(xs, k) == IF k > Len(xs) THEN 0 ELSE k

\* the index of the first expert row from k on whose name is not blank, or 0
RECURSIVE NextExpert(_, _)
NextExpert(xs, k) ==
  IF k > Len(xs) THEN 0
  ELSE IF trim(xs[k]) # << >> THEN k
  ELSE NextExpert(xs, k + 1)

\* the request handleSubmit issues next, after the one at step, in a handler
\* whose closure holds the form f
NextRequest(step, k, f) ==
  IF step = "event" /\ f.banner THEN [step |-> "banner", k |-> 0]
  ELSE IF step \in {"event", "banner", "expert"}
       THEN LET n == NextExpert(f.experts, k + 1)
            IN IF n > 0 THEN [step |-> "expert", k |-> n]
               ELSE [step |-> "list", k |-> 0]
       ELSE [step |-> "idle", k |-> 0]

\* what goes over the wire for a step
RequestOf(step, k, c) ==
  CASE step = "event" ->
         [kind |-> IF c.editing THEN "update" ELSE "create", arg |-> trim(c.form.code)]
    [] step = "expert" -> [kind |-> "expert", arg |-> trim(c.form.experts[k])]
    [] OTHER -> [kind |-> step, arg |-> << >>]

\* `Error ${editingEvent ? "updating" : "creating"} meeting`
ErrorSaving(editing) ==
  IF editing THEN "Error updating meeting" ELSE "Error creating meeting"
\* `Meeting ${editingEvent ? "updated" : "created"} successfully`
SavedMsg(editing) ==
  IF editing THEN "Meeting updated successfully"
  ELSE "Meeting created successfully"

\* the save button up to the first await; it is disabled while submitting
handleSubmit ==
  /\ page = "MeetingManagement"
  /\ meeting.open
  /\ ~meeting.submitting
  /\ save.step = "idle"
  /\ IF ~meeting.editing /\ trim(meeting.form.code) = << >>
     THEN /\ pushes < MaxPushes
          /\ toastFn(pushToast("error", "Event code is required"))
          /\ UNCHANGED << meeting, save >>
          /\ sent' = << >>
     ELSE IF ~meeting.form.dates
     THEN \* new Date("").toISOString() throws: catch, finally
          /\ pushes < MaxPushes
          /\ toastFn(pushToast("error", ErrorSaving(meeting.editing)))
          /\ UNCHANGED << meeting, save >>
          /\ sent' = << >>
     ELSE /\ meeting' = [meeting EXCEPT !.submitting = TRUE]
          /\ save' = [step |-> "event", k |-> 0, editing |-> meeting.editing,
                      form |-> meeting.form]
          /\ sent' = << RequestOf("event", 0, save') >>
          /\ UNCHANGED << toast, toastVars >>
  /\ last' = MeetingStep("handleSubmit")
  /\ UNCHANGED meetRest

\* the create/update, banner or expert request resolves: the next request
SaveStepSettled ==
  LET nx == NextRequest(save.step, save.k, save.form) IN
  /\ save.step \in {"event", "banner", "expert"}
  /\ save' = [save EXCEPT !.step = nx.step, !.k = nx.k]
  /\ sent' = Append(sent, RequestOf(nx.step, nx.k, save))
  /\ meeting' = IF nx.step = "list"
                THEN [meeting EXCEPT !.loading = TRUE] ELSE meeting
  /\ last' = MeetingStep("SaveStepSettled")
  /\ UNCHANGED << toast, toastVars, meetRest >>

\* the create/update, banner or expert request fails: catch, finally
SaveStepFailed ==
  /\ save.step \in {"event", "banner", "expert"}
  /\ pushes < MaxPushes
  /\ save' = NoSave
  /\ meeting' = [meeting EXCEPT !.submitting = FALSE]
  /\ toastFn(pushToast("error", ErrorSaving(save.editing)))
  /\ last' = MeetingStep("SaveStepFailed")
  /\ UNCHANGED << sent, meetRest >>

\* the end of handleSubmit's try block and its finally
SaveDone ==
  [meeting EXCEPT !.open = FALSE, !.editing = FALSE, !.form = blankMeetingForm,
                  !.submitting = FALSE, !.loading = FALSE]

\* fetchEvents of handleSubmit resolves: setEvents, then the modal closes
ListSettled ==
  /\ save.step = "list"
  /\ pushes < MaxPushes
  /\ save' = NoSave
  /\ meeting' = [SaveDone EXCEPT !.events = "listed"]
  /\ toastFn(pushToast("success", SavedMsg(save.editing)))
  /\ last' = MeetingStep("ListSettled")
  /\ UNCHANGED << sent, meetRest >>

\* fetchEvents of handleSubmit fails: it catches the error itself (a toast),
\* and handleSubmit goes on as after a success
ListFailed ==
  /\ save.step = "list"
  /\ pushes + 1 < MaxPushes
  /\ save' = NoSave
  /\ meeting' = SaveDone
  /\ pushes' = pushes + 2
  /\ timeouts' = timeouts \cup {[id |-> pushes + 1, due |-> now + NotificationMs],
                                [id |-> pushes + 2, due |-> now + NotificationMs]}
  /\ toast' = pushToast("success", SavedMsg(save.editing))
  /\ toastNo' = pushes + 2
  /\ render' = render + 2
  /\ fnT' = fnT \o << 0, 0 >>
  /\ last' = MeetingStep("ListFailed")
  /\ UNCHANGED << sent, meetRest >>

InitMeeting ==
  /\ page = "MeetingManagement"
  /\ form = initialForm
  /\ joining = FALSE
  /\ authMode = "register"
  /\ login = initialLogin
  /\ joinNotice = ""
  /\ toast = NoToast
  /\ storage = [access_token |-> "A_reg", refresh_token |-> NoVal]
  /\ inflight = << >>
  /\ jbLoading = FALSE
  /\ out = NoEffects
  /\ last = [op |-> "mount", res |-> NoResponse, tok |-> NoTokenResponse,
             pre |-> [joinNotice |-> "", authMode |-> "register",
                      storage |-> storage],
             st0 |-> storage]
  /\ IdleView

NextMeeting ==
  \/ OpenCreate \/ handleEditEvent \/ EditMeetingForm \/ closeModal
  \/ EventsListed \/ handleSubmit \/ SaveStepSettled \/ SaveStepFailed
  \/ ListSettled \/ ListFailed
SpecMeeting == InitMeeting /\ [][NextMeeting]_vars

\* the requests of a complete save of the form f: the event, the banner if one
\* was chosen, the experts with a name in the order of their rows, the list
ExpectedRequests(editing, f) ==
  LET named(n) == trim(n) # << >>
      xs == SelectSeq(f.experts, named)
  IN << [kind |-> IF editing THEN "update" ELSE "create", arg |-> trim(f.code)] >>
       \o (IF f.banner THEN << [kind |-> "banner", arg |-> << >>] >> ELSE << >>)
       \o [k \in 1..Len(xs) |-> [kind |-> "expert", arg |-> trim(xs[k])]]
       \o << [kind |-> "list", arg |-> << >>] >>

IsPrefix(s, t) == Len(s) <= Len(t) /\ s = SubSeq(t, 1, Len(s))

\* what holds of every step of a save whichever request fails
SaveInOrder ==
  /\ save'.step # "idle"
       => /\ IsPrefix(sent', ExpectedRequests(save'.editing, save'.form))
          /\ sent'[Len(sent')].kind
               = (IF save'.step = "event"
                  THEN (IF save'.editing THEN "update" ELSE "create")
                  ELSE save'.step)
  /\ sent' # sent
       => /\ last'.op \in {"handleSubmit", "SaveStepSettled"}
          /\ last'.op = "SaveStepSettled" => sent' = Append(sent, sent'[Len(sent')])
  /\ last'.op \in {"ListSettled", "ListFailed"}
       => sent = ExpectedRequests(save.editing, save.form)
  /\ (last'.op = "handleSubmit" /\ ~meeting.editing /\ trim(meeting.form.code) = << >>)
       => /\ sent' = << >>
          /\ save'.step = "idle"
          /\ ~meeting'.submitting

\* a failed request ends the save: nothing more is sent, the modal and the
\* form stay as they are, an error notice, submitting false
FailStop ==
  /\ sent' = sent
  /\ save'.step = "idle"
  /\ meeting'.open = meeting.open
  /\ meeting'.form = meeting.form
  /\ meeting'.editing = meeting.editing
  /\ toast'.type = "error"
  /\ ~meeting'.submitting

\* C30 as stated: the requests of a save go out in the order event, banner,
\* experts with a name, list, each after the one before it succeeded; when any
\* of them fails nothing more is sent, the modal stays open with the form
\* kept, an error notice is shown and submitting is false again; a create
\* with a blank code sends nothing.
C30_FailStopOnAnyRequest ==
  [][ /\ SaveInOrder
      /\ last'.op \in {"SaveStepFailed", "ListFailed"} => FailStop ]_vars

\* C30 amended: as stated for the event, banner and expert requests; the list
\* refetch is the last request, and fetchEvents handles its own failure: after
\* it, failed or not, the modal is closed, the form is reset, the notice left
\* on display is the success notice and submitting is false. A form without
\* dates sends nothing either.
C30_OrderedSave ==
  [][ /\ SaveInOrder
      /\ last'.op = "SaveStepFailed" => FailStop
      /\ last'.op \in {"ListSettled", "ListFailed"}
           => /\ sent' = sent
              /\ save'.step = "idle"
              /\ ~meeting'.open
              /\ meeting'.form = blankMeetingForm
              /\ toast'.type = "success"
              /\ ~meeting'.submitting
      /\ (last'.op = "handleSubmit" /\ ~meeting.form.dates)
           => sent' = << >> /\ save'.step = "idle" ]_vars

C30_Witness ==
  /\ last.op = "SaveStepFailed"
  /\ Len(sent) = 3
  /\ sent[1].kind = "create"
  /\ sent[2].kind = "banner"
  /\ sent[3] = [kind |-> "expert", arg |-> << "A", "n", "n" >>]
  /\ Len(meeting.form.experts) = 2
  /\ meeting.form.experts[1] = << " " >>
  /\ meeting.open
  /\ ~meeting.submitting
  /\ toast.type = "error"

====
